---- MODULE Spec2Model ----
(***************************************************************************)
(* Financial-Analytics-Application: the market-data query endpoints        *)
(* (api_service/marketdata_views.py) over the eq_masters / eq_ohlcv        *)
(* tables, the ingestion service (data_ingestion/service.py) writing the   *)
(* market_data table through ClickHouseRepository, the scheduled tasks     *)
(* (data_ingestion/tasks.py, financial_analytics/celery.py) and the        *)
(* provider-backed endpoints behind the RateLimiter (api_service/views.py, *)
(* api_service/services.py).                                               *)
(*                                                                         *)
(* Text is modelled as sequences of character codes, so that int(),        *)
(* strptime(), isoformat(), split(), strip() and upper() are computed.     *)
(***************************************************************************)
EXTENDS Integers, Sequences, FiniteSets, TLC

VARIABLES
    eq_masters,   \* table eq_masters: sequence of rows, in insertion order
    eq_ohlcv,     \* table eq_ohlcv (MergeTree): sequence of rows
    today,        \* datetime.now().date(), as a proleptic Gregorian ordinal
    req,          \* the HTTP request being / last served
    resp,         \* its response
    par,          \* the ThreadPoolExecutor fan-out of get_latest_marketdata
    market_data,  \* table market_data written by ClickHouseRepository
    last,         \* the last single-symbol ingestion call and its outcome
    batch,        \* the running / last batch ingestion loop
    task,         \* one instance of a scheduled task and its retries
    limiter,      \* the RateLimiter of yahoo_finance_service and its clock
    provider,     \* the request / response of a provider-backed endpoint
    beat,         \* the wall clock of the beat scheduler and what it fired
    load          \* the last run of a bulk loader of finanalytics/views.py

vars == <<eq_masters, eq_ohlcv, today, req, resp, par, market_data, last, batch,
          task, limiter, provider, beat, load>>

queryVars == <<req, resp, par>>
ingestVars == <<market_data, last, batch>>
tableVars == <<eq_masters, eq_ohlcv, today, load>>
serviceVars == <<limiter, provider, beat>>

----------------------------------------------------------------------------
(* Bounds of the model *)

MaxRows == 2        \* rows of eq_ohlcv in an initial store content
MaxWindow == 2      \* days of history one call may ask the provider for
MaxStore == 3       \* rows of market_data
MaxBatch == 3       \* symbols in one batch call
MaxCalls == 2       \* max_calls of the RateLimiter
TicksPerSecond == 2 \* clock ticks in the limiter's period of 1.0 second
MaxClock == 4       \* last tick of the limiter's clock
MaxQuotes == 2      \* symbols in the body of one POST /quotes
MaxBeatDays == 7    \* days of wall-clock time the beat scheduler runs

----------------------------------------------------------------------------
(* Text: sequences of character codes *)

None == <<-1>>      \* Python None: request.GET.get(key) of an absent key

Min(S) == CHOOSE x \in S : \A y \in S : x <= y
Max(S) == CHOOSE x \in S : \A y \in S : x >= y

IsDigit(c) == c \in 48..57
IsSpace(c) == c \in {9, 10, 11, 12, 13, 32}

\* str.strip()
Strip(s) ==
    LET keep == {i \in DOMAIN s : ~IsSpace(s[i])}
    IN IF keep = {} THEN <<>> ELSE SubSeq(s, Min(keep), Max(keep))

\* str.upper()
Upper(s) == [i \in DOMAIN s |-> IF s[i] \in 97..122 THEN s[i] - 32 ELSE s[i]]

\* str.lower()
Lower(s) == [i \in DOMAIN s |-> IF s[i] \in 65..90 THEN s[i] + 32 ELSE s[i]]

\* str.split(sep)
RECURSIVE Split(_, _)
Split(s, sep) ==
    LET at == {i \in DOMAIN s : s[i] = sep}
    IN IF at = {} THEN <<s>>
       ELSE <<SubSeq(s, 1, Min(at) - 1)>> \o Split(SubSeq(s, Min(at) + 1, Len(s)), sep)

RECURSIVE DigitsVal(_)
DigitsVal(s) ==
    IF s = <<>> THEN 0
    ELSE DigitsVal(SubSeq(s, 1, Len(s) - 1)) * 10 + (s[Len(s)] - 48)

AllDigits(s) == s # <<>> /\ \A i \in DOMAIN s : IsDigit(s[i])

\* int(text): optional surrounding blanks, optional sign, decimal digits
IntBody(s) ==
    LET t == Strip(s)
    IN IF t # <<>> /\ t[1] \in {43, 45} THEN Tail(t) ELSE t
IntOk(s) == s # None /\ AllDigits(IntBody(s))
IntVal(s) ==
    LET t == Strip(s)
    IN IF t[1] = 45 THEN 0 - DigitsVal(IntBody(s)) ELSE DigitsVal(IntBody(s))

\* zero-padded decimal text of n in w digits
RECURSIVE Pad(_, _)
Pad(n, w) == IF w = 0 THEN <<>> ELSE Pad(n \div 10, w - 1) \o <<48 + (n % 10)>>

\* order key of a ticker: texts of at most KeyWidth characters compare as
\* these numbers compare
KeyWidth == 2
RECURSIVE StrKey(_, _)
StrKey(s, w) ==
    IF w = 0 THEN 0
    ELSE (IF s = <<>> THEN 0 ELSE s[1] + 1) * (200 ^ (w - 1))
         + StrKey(IF s = <<>> THEN <<>> ELSE Tail(s), w - 1)
TickerKey(s) == StrKey(s, KeyWidth)

----------------------------------------------------------------------------
(* Dates: datetime.date as its proleptic Gregorian ordinal *)

IsLeap(y) == (y % 4 = 0) /\ ((y % 100 # 0) \/ (y % 400 = 0))
DaysInMonth(y, m) ==
    IF m = 2 THEN (IF IsLeap(y) THEN 29 ELSE 28)
    ELSE IF m \in {4, 6, 9, 11} THEN 30 ELSE 31
DaysBeforeYear(y) ==
    (y - 1) * 365 + ((y - 1) \div 4) - ((y - 1) \div 100) + ((y - 1) \div 400)
RECURSIVE DaysBeforeMonth(_, _)
DaysBeforeMonth(y, m) ==
    IF m = 1 THEN 0 ELSE DaysBeforeMonth(y, m - 1) + DaysInMonth(y, m - 1)
ToOrdinal(y, m, d) == DaysBeforeYear(y) + DaysBeforeMonth(y, m) + d

Years == 2023..2025   \* calendar years the model's dates fall in
YearOf(n) == CHOOSE y \in Years : DaysBeforeYear(y) < n /\ n <= DaysBeforeYear(y + 1)
MonthOf(n) ==
    LET y == YearOf(n) r == n - DaysBeforeYear(y)
    IN CHOOSE m \in 1..12 : DaysBeforeMonth(y, m) < r /\ r <= DaysBeforeMonth(y, m) + DaysInMonth(y, m)
DayOf(n) == n - DaysBeforeYear(YearOf(n)) - DaysBeforeMonth(YearOf(n), MonthOf(n))

\* date.isoformat()
IsoFormat(n) == Pad(YearOf(n), 4) \o <<45>> \o Pad(MonthOf(n), 2) \o <<45>> \o Pad(DayOf(n), 2)

\* datetime.strptime(text, '%Y-%m-%d').date(): %Y is four digits, %m and %d
\* one or two digits, and the day must exist in the month
StrpOk(s) ==
    LET p == Split(s, 45)
    IN /\ Len(p) = 3
       /\ Len(p[1]) = 4 /\ AllDigits(p[1]) /\ DigitsVal(p[1]) >= 1
       /\ Len(p[2]) \in 1..2 /\ AllDigits(p[2]) /\ DigitsVal(p[2]) \in 1..12
       /\ Len(p[3]) \in 1..2 /\ AllDigits(p[3])
       /\ DigitsVal(p[3]) \in 1..DaysInMonth(DigitsVal(p[1]), DigitsVal(p[2]))
Strptime(s) ==
    LET p == Split(s, 45)
    IN ToOrdinal(DigitsVal(p[1]), DigitsVal(p[2]), DigitsVal(p[3]))

----------------------------------------------------------------------------
(* Python list and integer helpers *)

\* a // b (floor division), b # 0
FloorDiv(a, b) == IF b > 0 THEN a \div b ELSE (0 - a) \div (0 - b)

\* s[a:b]
PySlice(s, a, b) ==
    LET n == Len(s)
        lo == IF a < 0 THEN (IF a + n < 0 THEN 0 ELSE a + n) ELSE (IF a > n THEN n ELSE a)
        hi == IF b < 0 THEN (IF b + n < 0 THEN 0 ELSE b + n) ELSE (IF b > n THEN n ELSE b)
    IN SubSeq(s, lo + 1, hi)

\* list.sort(key=...) / ORDER BY: stable sort of s by the integer keys k
RankOf(k, i) ==
    Cardinality({j \in DOMAIN k : k[j] < k[i] \/ (k[j] = k[i] /\ j < i)}) + 1
StableSort(s, k) ==
    [p \in DOMAIN s |-> s[CHOOSE i \in DOMAIN s : RankOf(k, i) = p]]

RECURSIVE Pick(_, _)
Pick(s, idx) ==
    IF idx = {} THEN <<>>
    ELSE <<s[Min(idx)]>> \o Pick(s, idx \ {Min(idx)})

----------------------------------------------------------------------------
(* Texts used as inputs *)

SymA == <<65>>                      \* "A"
SymB == <<66>>                      \* "B"
SymC == <<67>>                      \* "C"
T_1 == <<49>>                       \* "1"
T_2 == <<50>>                       \* "2"
T_0 == <<48>>                       \* "0"
T_neg1 == <<45, 49>>                \* "-1"
T_x == <<120>>                      \* "x"
T_false == <<102, 97, 108, 115, 101>>   \* "false"
T_False == <<70, 97, 108, 115, 101>>    \* "False"
T_true == <<116, 114, 117, 101>>        \* "true"
D_0301 == <<50, 48, 50, 52, 45, 48, 51, 45, 48, 49>>    \* "2024-03-01"
D_0314 == <<50, 48, 50, 52, 45, 48, 51, 45, 49, 52>>    \* "2024-03-14"
D_0320 == <<50, 48, 50, 52, 45, 48, 51, 45, 50, 48>>    \* "2024-03-20"
D_0230 == <<50, 48, 50, 52, 45, 48, 50, 45, 51, 48>>    \* "2024-02-30"
S_A == <<65>>                       \* "A"
S_b == <<98>>                       \* "b"
S_AB == <<65, 44, 66>>              \* "A,B"
S_bA == <<98, 44, 32, 65>>          \* "b, A"
S_AA == <<65, 44, 65>>              \* "A,A"
S_CAB == <<67, 44, 65, 44, 66>>     \* "C,A,B"

Day0 == ToOrdinal(2024, 3, 15)      \* the first "today" of a behaviour

----------------------------------------------------------------------------
(* The store read by the query endpoints: tables eq_masters and eq_ohlcv.  *)
(* A datetime counts half days: datetime \div TicksPerDay is its date.     *)

TicksPerDay == 2
ToDate(dt) == dt \div TicksPerDay
\* datetime.isoformat()
IsoDateTime(dt) ==
    IsoFormat(ToDate(dt)) \o <<84>> \o Pad((dt % TicksPerDay) * (24 \div TicksPerDay), 2)
        \o <<58, 48, 48, 58, 48, 48>>

Bar(t, dt, px) ==
    [ticker |-> t, datetime |-> dt, open |-> px, high |-> px + 1,
     low |-> px - 1, close |-> px, volume |-> 100 * px]

Master(t, ts) == [ticker |-> t, trading_symbol |-> ts, description |-> ts]

\* rows an initial eq_ohlcv is made of: two days of A (one of them twice at
\* the same instant) and one day of B; C has no bar
OhlcvRows ==
    { Bar(SymA, (Day0 - 20) * TicksPerDay, 10),
      Bar(SymA, (Day0 - 1) * TicksPerDay + 1, 11),
      Bar(SymA, (Day0 - 1) * TicksPerDay + 1, 12),
      Bar(SymB, (Day0 - 40) * TicksPerDay, 20) }

MasterContents ==
    { <<>>,
      <<Master(SymB, SymB), Master(SymA, SymA), Master(SymC, SymC),
        Master(SymA, SymA \o <<45, 66, 69>>)>> }

RECURSIVE SeqsUpTo(_, _)
SeqsUpTo(S, n) ==
    IF n = 0 THEN {<<>>}
    ELSE SeqsUpTo(S, n - 1) \cup
         {Append(s, x) : s \in {t \in SeqsUpTo(S, n - 1) : Len(t) = n - 1}, x \in S}

\* the store rejects a negative LIMIT or OFFSET
QueryRaises(limit, offset) == limit < 0 \/ offset < 0

\* ... LIMIT limit OFFSET offset
Window(rows, limit, offset) ==
    SubSeq(rows, offset + 1, IF offset + limit > Len(rows) THEN Len(rows) ELSE offset + limit)

RECURSIVE Dedup(_)
Dedup(s) ==
    IF s = <<>> THEN <<>>
    ELSE LET d == Dedup(SubSeq(s, 1, Len(s) - 1))
             x == s[Len(s)]
         IN IF \E i \in DOMAIN d : d[i] = x THEN d ELSE Append(d, x)

Keys(rows, Key(_)) == [i \in DOMAIN rows |-> Key(rows[i])]

\* SELECT em.ticker, em.trading_symbol, em.description, COUNT(eo.datetime),
\*        MIN(eo.datetime), MAX(eo.datetime)
\* FROM eq_masters em LEFT JOIN eq_ohlcv eo ON em.ticker = eo.ticker
\* GROUP BY em.ticker, em.trading_symbol, em.description ORDER BY em.ticker
\* (0 stands for the NULL of MIN / MAX over no bar)
SymbolsGroup(g) ==
    LET copies == Cardinality({i \in DOMAIN eq_masters : eq_masters[i] = g})
        bars == {i \in DOMAIN eq_ohlcv : eq_ohlcv[i].ticker = g.ticker}
        dts == {eq_ohlcv[i].datetime : i \in bars}
    IN [ticker |-> g.ticker, trading_symbol |-> g.trading_symbol,
        description |-> g.description,
        record_count |-> copies * Cardinality(bars),
        first_date |-> IF bars = {} THEN 0 ELSE Min(dts),
        last_date |-> IF bars = {} THEN 0 ELSE Max(dts)]
SymbolsKey(g) == TickerKey(g.ticker)
SymbolsQuery(limit, offset) ==
    LET groups == Dedup(eq_masters)
        sorted == StableSort(groups, Keys(groups, SymbolsKey))
    IN Window([i \in DOMAIN sorted |-> SymbolsGroup(sorted[i])], limit, offset)

\* SELECT COUNT(DISTINCT ticker) FROM eq_masters
CountMasterTickers == Cardinality({eq_masters[i].ticker : i \in DOMAIN eq_masters})

\* ORDER BY datetime DESC
DescKey(r) == 0 - r.datetime
ByDatetimeDesc(rows) == StableSort(rows, Keys(rows, DescKey))

\* WHERE ticker = t AND toDate(datetime) BETWEEN from AND to
BarsMatching(t, from, to) ==
    Pick(eq_ohlcv, {i \in DOMAIN eq_ohlcv :
                      /\ eq_ohlcv[i].ticker = t
                      /\ ToDate(eq_ohlcv[i].datetime) >= from
                      /\ ToDate(eq_ohlcv[i].datetime) <= to})
BarsQuery(t, from, to, limit, offset) ==
    Window(ByDatetimeDesc(BarsMatching(t, from, to)), limit, offset)
BarsCount(t, from, to) == Len(BarsMatching(t, from, to))

\* SELECT ... WHERE ticker = t ORDER BY datetime DESC LIMIT 1
LatestOfTicker(t) ==
    Window(ByDatetimeDesc(Pick(eq_ohlcv, {i \in DOMAIN eq_ohlcv : eq_ohlcv[i].ticker = t})), 1, 0)

\* ROW_NUMBER() OVER (PARTITION BY ticker ORDER BY datetime DESC) ... rn = 1
\* ORDER BY ticker, over the rows whose ticker is in the set tickers
RowKey(r) == TickerKey(r.ticker)
LatestPerTicker(tickers) ==
    LET ts == Dedup([i \in DOMAIN eq_ohlcv |-> eq_ohlcv[i].ticker])
        firsts == Pick(ts, {i \in DOMAIN ts : ts[i] \in tickers})
        rows == [i \in DOMAIN firsts |-> LatestOfTicker(firsts[i])[1]]
    IN StableSort(rows, Keys(rows, RowKey))
LatestQuery(tickers, limit, offset) == Window(LatestPerTicker(tickers), limit, offset)
AllTickers == {eq_ohlcv[i].ticker : i \in DOMAIN eq_ohlcv}

\* SELECT COUNT(DISTINCT ticker) FROM eq_ohlcv
CountOhlcvTickers == Cardinality(AllTickers)

----------------------------------------------------------------------------
(* The query endpoints of api_service/marketdata_views.py *)

NoPagination ==
    [page |-> 0, perPage |-> 0, totalItems |-> 0, totalPages |-> 0,
     hasNext |-> FALSE, hasPrev |-> FALSE]
NoDateRange == [from |-> <<>>, to |-> <<>>]

NoReq ==
    [endpoint |-> "none", symbol |-> None, from |-> None, to |-> None,
     page |-> None, per_page |-> None, symbols |-> None, parallel |-> None]
NoResp ==
    [status |-> 0, error |-> "", ticker |-> <<>>, data |-> <<>>,
     dateRange |-> NoDateRange, pagination |-> NoPagination,
     connects |-> 0, queries |-> 0, store_failed |-> FALSE]
NoPar ==
    [active |-> FALSE, symbols_list |-> <<>>, tickers |-> <<>>, done |-> {},
     result |-> <<>>, market_data |-> <<>>, page |-> 0, per_page |-> 0]

\* no ingestion call / no batch yet
NoLast ==
    [op |-> "none", symbol |-> <<>>, info |-> "", raises |-> FALSE, frame |-> <<>>,
     store_ok |-> FALSE, before |-> <<>>, raised |-> FALSE, ret |-> 0, calls |-> 0]
NoBatch ==
    [op |-> "none", symbols |-> <<>>, days |-> 0, i |-> 0, total |-> 0,
     attempts |-> <<>>, rets |-> <<>>, before |-> <<>>, done |-> FALSE, ret |-> 0,
     rejected |-> FALSE]

\* no task instance sent yet
NoTask ==
    [name |-> "none", state |-> "idle", retries |-> 0, symbols |-> <<>>,
     alerts |-> <<>>, countdowns |-> <<>>, runs |-> 0,
     result |-> [status |-> "", count |-> 0]]

\* RateLimiter.__init__: no call admitted yet; "before", "at" and "outcome"
\* describe the last call of the wrapper
NoLimiter ==
    [max_calls |-> 0, calls |-> <<>>, now |-> 0, admitted |-> <<>>,
     before |-> <<>>, at |-> 0, outcome |-> "none", invoked |-> FALSE,
     threads |-> <<>>]
\* no request to a provider-backed endpoint yet
NoProvider ==
    [endpoint |-> "none", symbol |-> <<>>, from |-> None, to |-> None,
     body |-> [kind |-> "none", value |-> <<>>],
     status |-> 0, error |-> "", message |-> FALSE, items |-> 0,
     limiter_calls |-> 0, provider_calls |-> 0, upstream |-> "none",
     start |-> 0, end |-> 0, quotes |-> <<>>, fetched |-> <<>>]
\* no bulk loader has run yet
NoLoad ==
    [op |-> "none", status |-> 0, records_count |-> 0, failed_tickers |-> <<>>,
     select_ok |-> FALSE, data |-> <<>>, insert_ok |-> <<>>, none_as |-> "",
     inserted |-> <<>>]
\* the beat scheduler at 00:00 of the first day, a Monday (day_of_week 1)
NoBeat == [minute |-> 0, first_day |-> 1, due |-> {}, daily_today |-> 0]

\* Response({'error': ..., 'message': ...}, status=...)
ErrorResponse(status, error, connects, queries) ==
    [NoResp EXCEPT !.status = status, !.error = error,
                   !.connects = connects, !.queries = queries]

\* int(request.GET.get(key, default))
IntParamOk(v) == v = None \/ IntOk(v)
IntParam(v, default) == IF v = None THEN default ELSE IntVal(v)

MinOf(a, b) == IF a < b THEN a ELSE b

SymbolsDefaultPerPage == 50
SymbolsMaxPerPage == 100
BarsDefaultPerPage == 100
BarsMaxPerPage == 1000
LatestDefaultPerPage == 50
LatestMaxPerPage == 100
DefaultWindowDays == 30
MaxWorkers == 10

\* a page check that lets page 0 through
PageInvalidNegative(page) == page < 0

\* if page < 1: return 400
PageInvalid(page) == page < 1

\* a page count that rounds down
TotalPagesFloor(total_count, per_page) == FloorDiv(total_count, per_page)

\* total_pages = (total_count + per_page - 1) // per_page
TotalPages(total_count, per_page) == FloorDiv(total_count + per_page - 1, per_page)

\* the 'pagination' object of a 200 response
Pagination(page, per_page, total_count) ==
    LET total_pages == TotalPages(total_count, per_page)
    IN [page |-> page, perPage |-> per_page, totalItems |-> total_count,
        totalPages |-> total_pages, hasNext |-> page < total_pages,
        hasPrev |-> page > 1]

\* a bar row as its JSON object
BarJson(row) ==
    [ticker |-> row.ticker, datetime |-> IsoDateTime(row.datetime),
     open |-> row.open, high |-> row.high, low |-> row.low,
     close |-> row.close, volume |-> row.volume]
BarsJson(rows) == [i \in DOMAIN rows |-> BarJson(rows[i])]

SymbolJson(row) ==
    [ticker |-> row.ticker, tradingSymbol |-> row.trading_symbol,
     description |-> row.description, recordCount |-> row.record_count,
     firstDate |-> IF row.first_date # 0 THEN IsoDateTime(row.first_date) ELSE None,
     lastDate |-> IF row.last_date # 0 THEN IsoDateTime(row.last_date) ELSE None]

\* get_symbols(request); env is what the store does to this request
get_symbols(r, env) ==
    IF ~IntParamOk(r.page) \/ ~IntParamOk(r.per_page)
    THEN ErrorResponse(400, "Invalid parameter", 0, 0)
    ELSE
    LET page == IntParam(r.page, 1)
        per_page == MinOf(IntParam(r.per_page, SymbolsDefaultPerPage), SymbolsMaxPerPage)
        offset == (page - 1) * per_page
    IN IF PageInvalid(page) THEN ErrorResponse(400, "Invalid page number", 0, 0)
       ELSE IF env = "connect_fails" THEN ErrorResponse(500, "Internal server error", 1, 0)
       ELSE IF env = "query_fails" \/ QueryRaises(per_page, offset)
            THEN ErrorResponse(500, "Internal server error", 1, 1)
       ELSE IF per_page = 0 THEN ErrorResponse(500, "Internal server error", 1, 2)
       ELSE LET rows == SymbolsQuery(per_page, offset)
            IN [NoResp EXCEPT !.status = 200,
                              !.data = [i \in DOMAIN rows |-> SymbolJson(rows[i])],
                              !.pagination = Pagination(page, per_page, CountMasterTickers),
                              !.connects = 1, !.queries = 2]

\* "if not text": None and '' are falsy
Falsy(s) == s = None \/ s = <<>>

\* the to_date / from_date of get_marketdata_by_symbol
ResolveTo(to_s) == IF Falsy(to_s) THEN today ELSE Strptime(to_s)
ResolveFromWeek(from_s, to_date) ==
    IF Falsy(from_s) THEN to_date - 7 ELSE Strptime(from_s)
ResolveFrom(from_s, to_date) ==
    IF Falsy(from_s) THEN to_date - DefaultWindowDays ELSE Strptime(from_s)

\* a range check with the comparison turned round
RangeInvalidSwapped(from_date, to_date) == from_date < to_date

\* if from_date > to_date: return 400
RangeInvalid(from_date, to_date) == from_date > to_date

\* get_marketdata_by_symbol(request, symbol)
get_marketdata_by_symbol(r, env) ==
    IF ~IntParamOk(r.page) \/ ~IntParamOk(r.per_page)
    THEN ErrorResponse(400, "Invalid parameter", 0, 0)
    ELSE
    LET page == IntParam(r.page, 1)
        per_page == MinOf(IntParam(r.per_page, BarsDefaultPerPage), BarsMaxPerPage)
        offset == (page - 1) * per_page
    IN IF PageInvalid(page) THEN ErrorResponse(400, "Invalid page number", 0, 0)
       ELSE IF ~Falsy(r.to) /\ ~StrpOk(r.to) THEN ErrorResponse(400, "Invalid parameter", 0, 0)
       ELSE IF ~Falsy(r.from) /\ ~StrpOk(r.from) THEN ErrorResponse(400, "Invalid parameter", 0, 0)
       ELSE
       LET to_date == ResolveTo(r.to)
           from_date == ResolveFrom(r.from, to_date)
           ticker == Upper(r.symbol)
       IN IF RangeInvalid(from_date, to_date) THEN ErrorResponse(400, "Invalid date range", 0, 0)
          ELSE IF env = "connect_fails" THEN ErrorResponse(500, "Internal server error", 1, 0)
          ELSE IF env = "query_fails" \/ QueryRaises(per_page, offset)
               THEN ErrorResponse(500, "Internal server error", 1, 1)
          ELSE IF per_page = 0 THEN ErrorResponse(500, "Internal server error", 1, 2)
          ELSE [NoResp EXCEPT !.status = 200,
                              !.ticker = ticker,
                              !.data = BarsJson(BarsQuery(ticker, from_date, to_date, per_page, offset)),
                              !.dateRange = [from |-> IsoFormat(from_date), to |-> IsoFormat(to_date)],
                              !.pagination = Pagination(page, per_page, BarsCount(ticker, from_date, to_date)),
                              !.connects = 1, !.queries = 2]

\* [s.strip().upper() for s in symbols_param.split(',')]
SymbolsList(symbols_param) ==
    LET p == Split(symbols_param, 44)
    IN [i \in DOMAIN p |-> Upper(Strip(p[i]))]

\* request.GET.get('parallel', 'true').lower() != 'false'
UseParallel(v) == Lower(IF v = None THEN T_true ELSE v) # T_false

\* list(set) of a list
Elems(s) == {s[i] : i \in DOMAIN s}

\* the branch "if use_parallel and len(symbols_list) > 1" is reached
TakesParallel(r) ==
    /\ IntParamOk(r.page) /\ IntParamOk(r.per_page)
    /\ ~PageInvalid(IntParam(r.page, 1))
    /\ ~Falsy(r.symbols)
    /\ UseParallel(r.parallel)
    /\ Len(SymbolsList(r.symbols)) > 1

\* get_latest_marketdata(request), all branches but the parallel one
get_latest_marketdata(r, env) ==
    IF ~IntParamOk(r.page) \/ ~IntParamOk(r.per_page)
    THEN ErrorResponse(400, "Invalid parameter", 0, 0)
    ELSE
    LET page == IntParam(r.page, 1)
        per_page == MinOf(IntParam(r.per_page, LatestDefaultPerPage), LatestMaxPerPage)
        offset == (page - 1) * per_page
    IN IF PageInvalid(page) THEN ErrorResponse(400, "Invalid page number", 0, 0)
       ELSE IF env = "connect_fails" THEN ErrorResponse(500, "Internal server error", 1, 0)
       ELSE IF env = "query_fails" \/ QueryRaises(per_page, offset)
            THEN ErrorResponse(500, "Internal server error", 1, 1)
       ELSE IF ~Falsy(r.symbols)
       THEN \* sequential processing of the symbols list
            IF per_page = 0 THEN ErrorResponse(500, "Internal server error", 1, 1)
            ELSE LET symbols_list == SymbolsList(r.symbols)
                 IN [NoResp EXCEPT !.status = 200,
                                   !.data = BarsJson(LatestQuery(Elems(symbols_list), per_page, offset)),
                                   !.pagination = Pagination(page, per_page, Len(symbols_list)),
                                   !.connects = 1, !.queries = 1]
       ELSE \* latest data for all symbols
            IF per_page = 0 THEN ErrorResponse(500, "Internal server error", 1, 2)
            ELSE [NoResp EXCEPT !.status = 200,
                                !.data = BarsJson(LatestQuery(AllTickers, per_page, offset)),
                                !.pagination = Pagination(page, per_page, CountOhlcvTickers),
                                !.connects = 1, !.queries = 2]

\* fetch_latest_for_ticker(client, ticker): the one-element list of the
\* result, or the empty list for None
fetch_latest_for_ticker(ticker, ok) ==
    IF ~ok THEN <<>>
    ELSE LET rows == LatestOfTicker(ticker)
         IN IF rows # <<>> THEN <<BarJson(rows[1])>> ELSE <<>>

\* market_data.sort(key=lambda x: x['ticker'])
JsonKey(x) == TickerKey(x.ticker)
SortByTickerOmitted(md) == md
SortByTicker(md) == StableSort(md, Keys(md, JsonKey))

----------------------------------------------------------------------------
(* Requests *)

PageTexts == {None, T_0, T_neg1, T_1, T_2, T_x}
PerPageTexts == {None, T_1, T_2, T_0, T_neg1}
FromTexts == {None, D_0301, D_0320, D_0230}
ToTexts == {None, <<>>, D_0301, D_0314}
SymbolTexts == {S_A, S_b}
SymbolsTexts == {None, <<>>, S_A, S_AB, S_bA, S_AA, S_CAB}
ParallelTexts == {None, T_false, T_False}
Envs == {"ok", "connect_fails", "query_fails"}

\* no request has been received yet: a behaviour follows one request
Idle == req.endpoint = "none"

\* the response, with whether the connection or a query of the store raised
\* while it was computed
Served(response, env) ==
    [response EXCEPT !.store_failed = (env # "ok" /\ response.connects >= 1)]

GetSymbols ==
    /\ Idle
    /\ \E page \in PageTexts, per_page \in PerPageTexts, env \in Envs :
         LET r == [NoReq EXCEPT !.endpoint = "symbols", !.page = page, !.per_page = per_page]
         IN req' = r /\ resp' = Served(get_symbols(r, env), env)
    /\ UNCHANGED <<tableVars, par, ingestVars, task, serviceVars>>

GetMarketdataBySymbol ==
    /\ Idle
    /\ \E symbol \in SymbolTexts, from \in FromTexts, to \in ToTexts,
          page \in PageTexts, per_page \in PerPageTexts, env \in Envs :
         LET r == [NoReq EXCEPT !.endpoint = "by_symbol", !.symbol = symbol,
                                !.from = from, !.to = to,
                                !.page = page, !.per_page = per_page]
         IN req' = r /\ resp' = Served(get_marketdata_by_symbol(r, env), env)
    /\ UNCHANGED <<tableVars, par, ingestVars, task, serviceVars>>

\* get_latest_marketdata when it answers without the thread pool
GetLatest ==
    /\ Idle
    /\ \E symbols \in SymbolsTexts, parallel \in ParallelTexts,
          page \in PageTexts, per_page \in PerPageTexts, env \in Envs :
         LET r == [NoReq EXCEPT !.endpoint = "latest", !.symbols = symbols,
                                !.parallel = parallel,
                                !.page = page, !.per_page = per_page]
         IN /\ ~TakesParallel(r)
            /\ req' = r /\ resp' = Served(get_latest_marketdata(r, env), env)
    /\ UNCHANGED <<tableVars, par, ingestVars, task, serviceVars>>

\* get_latest_marketdata up to the submission of the futures
LatestSubmit ==
    /\ Idle
    /\ \E symbols \in SymbolsTexts, parallel \in ParallelTexts,
          page \in PageTexts, per_page \in PerPageTexts, connect_ok \in BOOLEAN :
         LET r == [NoReq EXCEPT !.endpoint = "latest", !.symbols = symbols,
                                !.parallel = parallel,
                                !.page = page, !.per_page = per_page]
             pg == IntParam(page, 1)
             pp == MinOf(IntParam(per_page, LatestDefaultPerPage), LatestMaxPerPage)
             offset == (pg - 1) * pp
             symbols_list == SymbolsList(symbols)
         IN /\ TakesParallel(r)
            /\ req' = r
            /\ IF connect_ok
               THEN /\ resp' = [NoResp EXCEPT !.connects = 1]
                    /\ par' = [active |-> TRUE, symbols_list |-> symbols_list,
                               tickers |-> PySlice(symbols_list, offset, offset + pp),
                               done |-> {},
                               result |-> [i \in DOMAIN PySlice(symbols_list, offset, offset + pp) |-> <<>>],
                               market_data |-> <<>>,
                               page |-> pg, per_page |-> pp]
               ELSE /\ resp' = Served(ErrorResponse(500, "Internal server error", 1, 0),
                                      "connect_fails")
                    /\ par' = NoPar
    /\ UNCHANGED <<tableVars, ingestVars, task, serviceVars>>

\* task i has been taken up by one of the pool's workers
Started(i) ==
    Cardinality({j \in 1..(i - 1) : j \notin par.done})
        < MinOf(MaxWorkers, Len(par.symbols_list))

\* as_completed yields future i: "if result: market_data.append(result)"
WorkerDone ==
    /\ par.active
    /\ \E i \in DOMAIN par.tickers \ par.done, ok \in BOOLEAN :
         /\ Started(i)
         /\ par' = [par EXCEPT !.done = @ \cup {i},
                               !.result[i] = fetch_latest_for_ticker(par.tickers[i], ok),
                               !.market_data = @ \o fetch_latest_for_ticker(par.tickers[i], ok)]
         /\ resp' = [resp EXCEPT !.queries = @ + 1, !.store_failed = @ \/ ~ok]
    /\ UNCHANGED <<tableVars, req, ingestVars, task, serviceVars>>

\* all futures are collected: sort, count, respond
LatestCollect ==
    /\ par.active
    /\ par.done = DOMAIN par.tickers
    /\ resp' = IF par.per_page = 0
               THEN [ErrorResponse(500, "Internal server error", resp.connects, resp.queries)
                       EXCEPT !.store_failed = resp.store_failed]
               ELSE [resp EXCEPT !.status = 200,
                                 !.data = SortByTicker(par.market_data),
                                 !.pagination = Pagination(par.page, par.per_page, Len(par.symbols_list))]
    /\ par' = [par EXCEPT !.active = FALSE]
    /\ UNCHANGED <<tableVars, req, ingestVars, task, serviceVars>>

\* datetime.now() passes midnight
MaxDays == 1
Tick ==
    /\ Idle
    /\ today < Day0 + MaxDays
    /\ today' = today + 1
    /\ UNCHANGED <<eq_masters, eq_ohlcv, load, queryVars, ingestVars, task, serviceVars>>

InitQuery ==
    /\ eq_masters \in MasterContents
    /\ eq_ohlcv \in SeqsUpTo(OhlcvRows, MaxRows)
    /\ today = Day0 /\ load = NoLoad
    /\ req = NoReq /\ resp = NoResp /\ par = NoPar
    /\ market_data = <<>> /\ last = NoLast /\ batch = NoBatch
    /\ task = NoTask /\ limiter = NoLimiter /\ provider = NoProvider /\ beat = NoBeat

NextQuery ==
    \/ GetSymbols
    \/ GetMarketdataBySymbol
    \/ GetLatest
    \/ LatestSubmit
    \/ WorkerDone
    \/ LatestCollect
    \/ Tick

SpecQuery == InitQuery /\ [][NextQuery]_vars

----------------------------------------------------------------------------
(* The provider (yfinance) and the table market_data *)

NaN == -1           \* a missing number in a provider DataFrame
PyNone == -2        \* a MarketData field that was never set

IngestSymbols == {SymA, SymB, SymC}   \* symbols a batch list is made of
CallSymbols == {SymA, SymB}           \* symbols of the calls outside a batch

\* a row of the DataFrame of Ticker.history(), indexed by its day
ProviderBar(day, px, vol) ==
    [day |-> day, Open |-> px, High |-> px + 1, Low |-> px - 1, Close |-> px,
     Volume |-> vol]
BarVariants(day) == {ProviderBar(day, 5, vol) : vol \in {7, NaN}}

\* the DataFrames with one row for each day of S, in index order
RECURSIVE FramesOn(_)
FramesOn(S) ==
    IF S = {} THEN {<<>>}
    ELSE {Append(f, b) : f \in FramesOn(S \ {Max(S)}), b \in BarVariants(Max(S))}

\* what Ticker.history(start=now - days, end=now, interval='1d') may do:
\* raise, or return a DataFrame over the last k days of the window, 0 <= k <= days
\* (at most MaxWindow bars)
LastDays(k) == (today - k + 1)..today
HistoryOutcomes(days) ==
    {[raises |-> TRUE, frame |-> <<>>]} \cup
    {[raises |-> FALSE, frame |-> f] :
        f \in UNION {FramesOn(LastDays(k)) : k \in 0..Min({days, MaxWindow})}}

\* what Ticker.info may do: raise, hold no 'symbol', or describe the symbol
InfoOutcomes == {"raise", "empty", "ok"}

\* int(x) raises ValueError on a missing number
IntRaises(x) == x = NaN

\* MarketData(symbol=..., timestamp=index.to_pydatetime(), date=index.date(), ...)
MarketData(symbol, bar) ==
    [symbol |-> symbol, timestamp |-> bar.day * TicksPerDay, date |-> bar.day,
     open |-> bar.Open, high |-> bar.High, low |-> bar.Low, close |-> bar.Close,
     volume |-> bar.Volume, adjusted_close |-> bar.Close, created_at |-> today]

\* "float(x) if x else 0": None and 0 are falsy, a missing number is not
ValueOrZero(x) == IF x = PyNone \/ x = 0 THEN 0 ELSE x

\* the tuple save and save_batch hand to the INSERT
InsertTuple(md) ==
    [md EXCEPT !.open = ValueOrZero(@), !.high = ValueOrZero(@),
               !.low = ValueOrZero(@), !.close = ValueOrZero(@),
               !.volume = ValueOrZero(@), !.adjusted_close = ValueOrZero(@)]

\* client.execute("INSERT INTO market_data (...) VALUES", data): the rows are
\* appended to the table
ExecuteInsert(table, data) == table \o data

\* ClickHouseRepository.save(market_data): logs and re-raises a store failure
save(table, md, store_ok) ==
    IF store_ok
    THEN [exc |-> FALSE, table |-> ExecuteInsert(table, <<InsertTuple(md)>>), calls |-> 1]
    ELSE [exc |-> TRUE, table |-> table, calls |-> 1]

\* a save_batch that reports the size of the list it was given
SavedCountOfList(market_data_list, data, store_ok) == Len(market_data_list)

\* saved_count of save_batch: len(data) once the INSERT has returned, else 0
SavedCount(market_data_list, data, store_ok) == IF store_ok THEN Len(data) ELSE 0

\* ClickHouseRepository.save_batch(market_data_list): swallows a store failure
save_batch(table, market_data_list, store_ok) ==
    IF market_data_list = <<>>
    THEN [table |-> table, saved_count |-> 0, calls |-> 0]
    ELSE LET data == [i \in DOMAIN market_data_list |-> InsertTuple(market_data_list[i])]
         IN [table |-> IF store_ok THEN ExecuteInsert(table, data) ELSE table,
             saved_count |-> SavedCount(market_data_list, data, store_ok),
             calls |-> 1]

----------------------------------------------------------------------------
(* DataIngestionService *)

\* the try block of ingest_historical_data; exc: it raised
HistoricalBody(table, symbol, hist, store_ok) ==
    IF hist.raises THEN [exc |-> TRUE, table |-> table, ret |-> 0, calls |-> 0]
    ELSE IF hist.frame = <<>> THEN [exc |-> FALSE, table |-> table, ret |-> 0, calls |-> 0]
    ELSE IF \E i \in DOMAIN hist.frame : IntRaises(hist.frame[i].Volume)
         THEN [exc |-> TRUE, table |-> table, ret |-> 0, calls |-> 0]
    ELSE LET market_data_list == [i \in DOMAIN hist.frame |-> MarketData(symbol, hist.frame[i])]
             b == save_batch(table, market_data_list, store_ok)
         IN [exc |-> FALSE, table |-> b.table, ret |-> b.saved_count, calls |-> b.calls]

\* ingest_historical_data(symbol, days): "except Exception: return 0"
ingest_historical_data(table, symbol, hist, store_ok) ==
    LET b == HistoricalBody(table, symbol, hist, store_ok)
    IN [raised |-> FALSE, table |-> b.table, ret |-> IF b.exc THEN 0 ELSE b.ret,
        calls |-> b.calls]

\* the try block of ingest_current_quote; ret is 1 for True and 0 for False
QuoteBody(table, symbol, info, hist, store_ok) ==
    IF info = "raise" THEN [exc |-> TRUE, table |-> table, ret |-> 0, calls |-> 0]
    ELSE IF info = "empty" THEN [exc |-> FALSE, table |-> table, ret |-> 0, calls |-> 0]
    ELSE IF hist.raises THEN [exc |-> TRUE, table |-> table, ret |-> 0, calls |-> 0]
    ELSE IF hist.frame = <<>> THEN [exc |-> FALSE, table |-> table, ret |-> 0, calls |-> 0]
    ELSE LET latest == hist.frame[Len(hist.frame)]
         IN IF IntRaises(latest.Volume)
            THEN [exc |-> TRUE, table |-> table, ret |-> 0, calls |-> 0]
            ELSE LET sv == save(table, MarketData(symbol, latest), store_ok)
                 IN [exc |-> sv.exc, table |-> sv.table,
                     ret |-> IF sv.exc THEN 0 ELSE 1, calls |-> sv.calls]

\* an ingest_current_quote without its "except Exception"
ingest_current_quote_unguarded(table, symbol, info, hist, store_ok) ==
    LET b == QuoteBody(table, symbol, info, hist, store_ok)
    IN [raised |-> b.exc, table |-> b.table, ret |-> b.ret, calls |-> b.calls]

\* ingest_current_quote(symbol): "except Exception: return False"
ingest_current_quote(table, symbol, info, hist, store_ok) ==
    LET b == QuoteBody(table, symbol, info, hist, store_ok)
    IN [raised |-> FALSE, table |-> b.table, ret |-> IF b.exc THEN 0 ELSE b.ret,
        calls |-> b.calls]

\* the record of one single-symbol call outside a batch: its inputs, the
\* table before it, and what it returned
CallRecord(op, symbol, info, hist, store_ok, r) ==
    [op |-> op, symbol |-> symbol, info |-> info, raises |-> hist.raises,
     frame |-> hist.frame, store_ok |-> store_ok, before |-> market_data,
     raised |-> r.raised, ret |-> r.ret, calls |-> r.calls]

\* a call of ingest_historical_data(symbol, days) outside a batch
IngestHistoricalData ==
    /\ batch.op = "none"
    /\ \E symbol \in CallSymbols, days \in 1..MaxWindow, store_ok \in BOOLEAN :
         \E hist \in HistoryOutcomes(days) :
            LET r == ingest_historical_data(market_data, symbol, hist, store_ok)
            IN /\ Len(r.table) <= MaxStore
               /\ market_data' = r.table
               /\ last' = CallRecord("historical", symbol, "", hist, store_ok, r)
    /\ UNCHANGED <<tableVars, queryVars, batch, task, serviceVars>>

\* a call of ingest_current_quote(symbol) outside a batch
IngestCurrentQuote ==
    /\ batch.op = "none"
    /\ \E symbol \in CallSymbols, info \in InfoOutcomes, store_ok \in BOOLEAN :
         \E hist \in HistoryOutcomes(1) :
            LET r == ingest_current_quote(market_data, symbol, info, hist, store_ok)
            IN /\ Len(r.table) <= MaxStore
               /\ market_data' = r.table
               /\ last' = CallRecord("quote", symbol, info, hist, store_ok, r)
    /\ UNCHANGED <<tableVars, queryVars, batch, task, serviceVars>>

\* the non-empty lists of at most n symbols
SymbolLists(n) == SeqsUpTo(IngestSymbols, n) \ {<<>>}

\* ingest_current_quotes_batch(symbols) / ingest_historical_data_batch(symbols,
\* days) up to the head of the loop
BatchStart ==
    /\ batch.op = "none" /\ last.op = "none"
    /\ \E op \in {"quotes", "historical"}, symbols \in SymbolLists(MaxBatch),
          days \in 1..MaxWindow :
         batch' = [NoBatch EXCEPT !.op = op, !.symbols = symbols,
                                  !.days = IF op = "quotes" THEN 1 ELSE days,
                                  !.i = 1, !.before = market_data]
    /\ UNCHANGED <<tableVars, queryVars, market_data, last, task, serviceVars>>

\* a loop that stops at the first symbol that saved nothing
NextSymbolBreak(i, n, ret) == IF ret = 0 THEN n + 1 ELSE i + 1

\* "for symbol in symbols": the index of the symbol after symbols[i]
NextSymbol(i, n, ret) == i + 1

\* what one symbol adds to success_count / total_saved
Contribution(op, ret) == IF op = "quotes" THEN (IF ret # 0 THEN 1 ELSE 0) ELSE ret

\* one turn of the loop: the single-symbol call for symbols[i], the count,
\* time.sleep(1); a call that raises is logged and the loop continues
BatchStep ==
    /\ batch.op # "none" /\ ~batch.done
    /\ batch.i <= Len(batch.symbols)
    /\ \E info \in InfoOutcomes, store_ok \in BOOLEAN :
         \E hist \in HistoryOutcomes(batch.days) :
            LET symbol == batch.symbols[batch.i]
                r == IF batch.op = "quotes"
                     THEN ingest_current_quote(market_data, symbol, info, hist, store_ok)
                     ELSE ingest_historical_data(market_data, symbol, hist, store_ok)
                ret == IF r.raised THEN 0 ELSE r.ret
            IN /\ batch.op = "historical" => info = "ok"
               /\ Len(r.table) <= MaxStore
               /\ market_data' = r.table
               /\ batch' = [batch EXCEPT
                              !.i = NextSymbol(batch.i, Len(batch.symbols), ret),
                              !.total = @ + Contribution(batch.op, ret),
                              !.attempts = Append(@, symbol),
                              !.rejected = @ \/ (r.calls = 1 /\ ~store_ok),
                              !.rets = Append(@, ret)]
    /\ UNCHANGED <<tableVars, queryVars, last, task, serviceVars>>

\* the loop is over: "return success_count" / "return total_saved"
BatchReturn ==
    /\ batch.op # "none" /\ ~batch.done
    /\ batch.i > Len(batch.symbols)
    /\ batch' = [batch EXCEPT !.done = TRUE, !.ret = batch.total]
    /\ UNCHANGED <<tableVars, queryVars, market_data, last, task, serviceVars>>

InitIngest ==
    /\ eq_masters = <<>> /\ eq_ohlcv = <<>>
    /\ today = Day0 /\ load = NoLoad
    /\ req = NoReq /\ resp = NoResp /\ par = NoPar
    /\ market_data = <<>> /\ last = NoLast /\ batch = NoBatch
    /\ task = NoTask /\ limiter = NoLimiter /\ provider = NoProvider /\ beat = NoBeat

NextIngest ==
    \/ IngestHistoricalData
    \/ IngestCurrentQuote
    \/ BatchStart
    \/ BatchStep
    \/ BatchReturn

SpecIngest == InitIngest /\ [][NextIngest]_vars

----------------------------------------------------------------------------
(* The scheduled tasks of data_ingestion/tasks.py *)

\* @shared_task(bind=True, max_retries=3, default_retry_delay=2)
max_retries == 3
default_retry_delay == 2
\* service.ingest_historical_data_batch(days=7)
DailyDays == 7

\* settings.INGESTION_SYMBOLS: the configured symbol universe
Universe(n) == [i \in 1..n |-> <<SymA, SymB, SymC>>[((i - 1) % 3) + 1]]
Universes == {Universe(n) : n \in 0..MaxBatch}

\* self.retry(exc=e) in a worker: Retry is raised and the task is sent again
\* with retries + 1 and countdown default_retry_delay while retries + 1 <=
\* max_retries; once they are exhausted, exc is raised when one was given and
\* MaxRetriesExceededError only when none was
retry(retries, exc_given) ==
    IF retries + 1 > max_retries
    THEN IF exc_given THEN "exc" ELSE "MaxRetriesExceededError"
    ELSE "Retry"

\* an alert threshold that includes exactly half
HighFailureRateInclusive(success_count, total_symbols) ==
    2 * success_count <= total_symbols
\* "Alert if high failure rate": success_count < total_symbols * 0.5
HighFailureRate(success_count, total_symbols) ==
    2 * success_count < total_symbols

\* the "except Exception as e" handler of both tasks
TaskFailed(t) ==
    LET logged == IF t.name = "daily" THEN Append(t.alerts, "failed") ELSE t.alerts
        raised == retry(t.retries, TRUE)
    IN IF raised = "Retry"
       THEN [t EXCEPT !.alerts = logged, !.state = "retrying",
                      !.retries = @ + 1, !.countdowns = Append(@, default_retry_delay)]
       ELSE IF raised = "MaxRetriesExceededError"
       THEN [t EXCEPT !.alerts = Append(logged, "after max retries"),
                      !.state = "failed", !.result = [status |-> "failed", count |-> 0]]
       ELSE [t EXCEPT !.alerts = logged, !.state = "raised"]

\* beat sends one instance of a task
TaskSend ==
    /\ task.state = "idle" /\ task.name = "none"
    /\ \E name \in {"daily", "intraday"}, symbols \in Universes :
         task' = [NoTask EXCEPT !.name = name, !.symbols = symbols, !.state = "sent"]
    /\ UNCHANGED <<tableVars, queryVars, ingestVars, serviceVars>>

\* a worker runs the task up to the head of the batch loop: the service is
\* built and the batch call entered, or the run raises and the handler runs
TaskRun ==
    /\ task.state \in {"sent", "retrying"}
    /\ \E raises \in BOOLEAN :
         IF raises
         THEN /\ task' = TaskFailed([task EXCEPT !.runs = @ + 1])
              /\ batch' = NoBatch
         ELSE /\ task' = [task EXCEPT !.state = "running", !.runs = @ + 1]
              /\ batch' = [NoBatch EXCEPT
                             !.op = IF task.name = "daily" THEN "historical" ELSE "quotes",
                             !.symbols = task.symbols,
                             !.days = IF task.name = "daily" THEN DailyDays ELSE 1,
                             !.i = 1, !.before = market_data]
    /\ UNCHANGED <<tableVars, queryVars, market_data, last, serviceVars>>

\* the batch call has returned: the rest of the try block
TaskReturn ==
    /\ task.state = "running" /\ batch.done
    /\ task' = [task EXCEPT
                  !.state = "success",
                  !.alerts = IF task.name = "intraday"
                                /\ HighFailureRate(batch.ret, Len(task.symbols))
                             THEN Append(@, "high failure rate") ELSE @,
                  !.result = [status |-> "success", count |-> batch.ret]]
    /\ UNCHANGED <<tableVars, queryVars, ingestVars, serviceVars>>

\* ingest_symbol_historical(symbol, days=30): r is what ingest_historical_data
\* did, raises that the try block raised before it
ingest_symbol_historical(raises, r) ==
    IF raises \/ r.raised THEN [status |-> "failed", count |-> 0]
    ELSE [status |-> "success", count |-> r.ret]

\* ingest_symbol_current(symbol): r is what ingest_current_quote did
ingest_symbol_current(raises, r) ==
    IF raises \/ r.raised THEN [status |-> "failed", count |-> 0]
    ELSE IF r.ret # 0 THEN [status |-> "success", count |-> 0]
    ELSE [status |-> "no_data", count |-> 0]

\* one run of an ad-hoc single-symbol task, from its call to its result
AdHocRun ==
    /\ task.state = "idle" /\ task.name = "none"
    /\ \E name \in {"symbol_historical", "symbol_current"}, symbol \in CallSymbols,
          raises \in BOOLEAN, info \in InfoOutcomes, store_ok \in BOOLEAN :
         \E hist \in HistoryOutcomes(IF name = "symbol_current" THEN 1 ELSE DefaultWindowDays) :
            LET r == IF name = "symbol_current"
                     THEN ingest_current_quote(market_data, symbol, info, hist, store_ok)
                     ELSE ingest_historical_data(market_data, symbol, hist, store_ok)
                t == [NoTask EXCEPT !.name = name, !.symbols = <<symbol>>,
                                    !.state = "returned", !.runs = 1]
            IN /\ name = "symbol_historical" => info = "ok"
               /\ IF raises
                  THEN /\ task' = [t EXCEPT !.result =
                                     IF name = "symbol_current"
                                     THEN ingest_symbol_current(TRUE, r)
                                     ELSE ingest_symbol_historical(TRUE, r)]
                       /\ UNCHANGED <<market_data, last>>
                  ELSE /\ task' = [t EXCEPT !.result =
                                     IF name = "symbol_current"
                                     THEN ingest_symbol_current(FALSE, r)
                                     ELSE ingest_symbol_historical(FALSE, r)]
                       /\ market_data' = r.table
                       /\ last' = CallRecord(IF name = "symbol_current" THEN "quote"
                                             ELSE "historical",
                                             symbol, IF name = "symbol_current" THEN info ELSE "",
                                             hist, store_ok, r)
    /\ UNCHANGED <<tableVars, queryVars, batch, serviceVars>>

InitTask == InitIngest

NextTask ==
    \/ TaskSend
    \/ TaskRun
    \/ BatchStep
    \/ BatchReturn
    \/ TaskReturn
    \/ AdHocRun

SpecTask == InitTask /\ [][NextTask]_vars

----------------------------------------------------------------------------
(* The beat schedule of financial_analytics/celery.py *)

MinutesPerDay == 24 * 60

\* crontab(minute=..., hour=..., day_of_week=...): the sets of values each
\* field matches; day_of_week counts from Sunday = 0
crontab(minute, hour, day_of_week) ==
    [minute |-> minute, hour |-> hour, day_of_week |-> day_of_week]
Every(n, S) == {x \in S : x % n = 0}

\* hour='9-16'
IntradayHours == 9..16

\* app.conf.beat_schedule
beat_schedule ==
    [daily |-> crontab({0}, {18}, 0..6),
     intraday |-> crontab(Every(15, 0..59), IntradayHours, 1..5)]

\* the wall clock of minute m after the start
DayOfWeek(m) == (beat.first_day + (m \div MinutesPerDay)) % 7
MinuteOfDay(m) == m % MinutesPerDay

\* crontab.is_due at minute m
IsDue(c, m) ==
    /\ (MinuteOfDay(m) % 60) \in c.minute
    /\ (MinuteOfDay(m) \div 60) \in c.hour
    /\ DayOfWeek(m) \in c.day_of_week

\* one minute passes and beat sends the entries that are due
BeatTick ==
    /\ beat.minute + 1 < MaxBeatDays * MinutesPerDay
    /\ LET m == beat.minute + 1
           due == {name \in DOMAIN beat_schedule : IsDue(beat_schedule[name], m)}
       IN beat' = [beat EXCEPT
                     !.minute = m, !.due = due,
                     !.daily_today = (IF MinuteOfDay(m) = 0 THEN 0 ELSE @)
                                       + (IF "daily" \in due THEN 1 ELSE 0)]
    /\ UNCHANGED <<tableVars, queryVars, ingestVars, task, limiter, provider>>

InitBeat ==
    /\ eq_masters = <<>> /\ eq_ohlcv = <<>>
    /\ today = Day0 /\ load = NoLoad
    /\ req = NoReq /\ resp = NoResp /\ par = NoPar
    /\ market_data = <<>> /\ last = NoLast /\ batch = NoBatch
    /\ task = NoTask /\ limiter = NoLimiter /\ provider = NoProvider
    /\ \E d \in 0..6 : beat = [NoBeat EXCEPT !.first_day = d]

NextBeat == BeatTick

SpecBeat == InitBeat /\ [][NextBeat]_vars

----------------------------------------------------------------------------
(* RateLimiter and YahooFinanceService of api_service/services.py *)

\* RateLimiter(max_calls, period=1.0)
period == TicksPerSecond

\* a limit reached only above max_calls
LimitReachedAbove(calls, max_calls) == Len(calls) > max_calls
\* "if len(self.calls) >= self.max_calls"
LimitReached(calls, max_calls) == Len(calls) >= max_calls

\* wrapper(*args, **kwargs) up to the call of func, at time.time() = lim.now:
\* the calls outside the window are dropped, then the call is refused or
\* recorded; raised: RateLimitExceededException
wrapper(lim) ==
    LET now == lim.now
        kept == SelectSeq(lim.calls, LAMBDA call_time : now - call_time < period)
        raised == LimitReached(kept, lim.max_calls)
    IN [raised |-> raised,
        limiter |-> [lim EXCEPT
                       !.calls = IF raised THEN kept ELSE Append(kept, now),
                       !.admitted = IF raised THEN @ ELSE Append(@, now),
                       !.before = lim.admitted, !.at = now,
                       !.outcome = IF raised THEN "rejected" ELSE "admitted",
                       !.invoked = ~raised]]

\* a fetch() that builds a quote from an info without 'symbol'
QuoteFetchUnchecked(info, hist_raises) ==
    IF info = "raise" THEN [exc |-> TRUE, provider_calls |-> 1]
    ELSE IF hist_raises THEN [exc |-> TRUE, provider_calls |-> 2]
    ELSE [exc |-> FALSE, provider_calls |-> 2]
\* fetch() of get_stock_quote: the exceptions of the try block, "No data
\* available" among them, leave as YahooFinanceException
QuoteFetch(info, hist_raises) ==
    IF info = "raise" THEN [exc |-> TRUE, provider_calls |-> 1]
    ELSE IF info = "empty" THEN [exc |-> TRUE, provider_calls |-> 1]
    ELSE IF hist_raises THEN [exc |-> TRUE, provider_calls |-> 2]
    ELSE [exc |-> FALSE, provider_calls |-> 2]

\* YahooFinanceService.get_stock_quote(symbol); exc: "none", "rate_limit"
\* or "yahoo"
get_stock_quote(lim, info, hist_raises) ==
    LET w == wrapper(lim)
        f == QuoteFetch(info, hist_raises)
    IN IF w.raised
       THEN [exc |-> "rate_limit", limiter |-> w.limiter, provider_calls |-> 0]
       ELSE [exc |-> IF f.exc THEN "yahoo" ELSE "none", limiter |-> w.limiter,
             provider_calls |-> f.provider_calls]

\* YahooFinanceService.get_historical_quotes(symbol, from_date, to_date, interval):
\* an empty frame and a Volume that int() refuses leave as YahooFinanceException
get_historical_quotes(lim, hist) ==
    LET w == wrapper(lim)
    IN IF w.raised
       THEN [exc |-> "rate_limit", limiter |-> w.limiter, provider_calls |-> 0, quotes |-> 0]
       ELSE IF hist.raises \/ hist.frame = <<>>
               \/ \E i \in DOMAIN hist.frame : IntRaises(hist.frame[i].Volume)
       THEN [exc |-> "yahoo", limiter |-> w.limiter, provider_calls |-> 1, quotes |-> 0]
       ELSE [exc |-> "none", limiter |-> w.limiter, provider_calls |-> 1,
             quotes |-> Len(hist.frame)]

\* a loop that appends a quote for a symbol whatever its fetch did
QuoteAppendedAlways(q) == TRUE

\* "quote = self.get_stock_quote(symbol); quotes.append(quote)" inside the
\* try: the append runs only when get_stock_quote returned
QuoteAppended(q) == q.exc = "none"

\* YahooFinanceService.get_multiple_quotes(symbols) from symbols[i] on: every
\* exception of get_stock_quote is logged and the loop continues; after a
\* quote, time.sleep(0.1) lets the clock advance by tick.  quotes are the
\* symbols of the quotes collected, fetched what each get_stock_quote did
RECURSIVE get_multiple_quotes_from(_, _, _, _, _)
get_multiple_quotes_from(symbols, i, lim, outs, tick) ==
    IF i > Len(symbols)
    THEN [limiter |-> lim, quotes |-> <<>>, fetched |-> <<>>,
          limiter_calls |-> 0, provider_calls |-> 0]
    ELSE LET q == get_stock_quote(lim, outs[i], FALSE)
             slept == IF q.exc = "none"
                      THEN [q.limiter EXCEPT !.now = Min({@ + tick, MaxClock})]
                      ELSE q.limiter
             rest == get_multiple_quotes_from(symbols, i + 1, slept, outs, tick)
         IN [limiter |-> rest.limiter,
             quotes |-> (IF QuoteAppended(q) THEN <<symbols[i]>> ELSE <<>>)
                        \o rest.quotes,
             fetched |-> <<q.exc>> \o rest.fetched,
             limiter_calls |-> rest.limiter_calls + 1,
             provider_calls |-> rest.provider_calls + q.provider_calls]

----------------------------------------------------------------------------
(* The provider-backed endpoints of api_service/views.py *)

\* Response({'error': error, 'message': ...}, status=status)
ProviderError(p, status, error, limiter_calls, provider_calls) ==
    [p EXCEPT !.status = status, !.error = error, !.message = TRUE,
              !.limiter_calls = limiter_calls, !.provider_calls = provider_calls]

\* what the views answer for the outcome r of a service call
ProviderResponse(p, r, items, limiter_calls) ==
    IF r.exc = "yahoo"
    THEN ProviderError(p, 500, "Internal server error", limiter_calls, r.provider_calls)
    ELSE IF r.exc = "rate_limit"
    THEN ProviderError(p, 429, "Rate limit exceeded", limiter_calls, r.provider_calls)
    ELSE [p EXCEPT !.status = 200, !.items = items,
                   !.limiter_calls = limiter_calls, !.provider_calls = r.provider_calls]

\* get_quote(request, symbol)
get_quote(symbol, lim, info, hist_raises) ==
    LET p == [NoProvider EXCEPT !.endpoint = "quote", !.symbol = Upper(symbol)]
        r == get_stock_quote(lim, info, hist_raises)
    IN [limiter |-> r.limiter, response |-> ProviderResponse(p, r, 1, 1)]

\* get_history(request, symbol); the interval only selects the bar size asked
\* of the provider
get_history(symbol, from_date_str, to_date_str, lim, hist) ==
    LET p == [NoProvider EXCEPT !.endpoint = "history", !.symbol = Upper(symbol),
                                !.from = from_date_str, !.to = to_date_str]
    IN IF Falsy(from_date_str) \/ Falsy(to_date_str)
       THEN [limiter |-> lim,
             response |-> ProviderError(p, 400, "Missing required parameters", 0, 0)]
       ELSE IF ~StrpOk(from_date_str) \/ ~StrpOk(to_date_str)
       THEN [limiter |-> lim,
             response |-> ProviderError(p, 400, "Invalid date format", 0, 0)]
       ELSE LET r == get_historical_quotes(lim, hist)
                called == [p EXCEPT !.start = Strptime(from_date_str),
                                    !.end = Strptime(to_date_str)]
            IN [limiter |-> r.limiter,
                response |-> ProviderResponse(called, r, r.quotes, 1)]

\* "if not symbols or not isinstance(symbols, list)" for symbols =
\* data.get('symbols', [])
SymbolsRejected(body) ==
    \/ body.kind \in {"missing", "null"}
    \/ body.kind = "text"
    \/ body.kind = "list" /\ body.value = <<>>

\* get_multiple_quotes(request)
get_multiple_quotes(body, lim, outs, tick) ==
    LET p == [NoProvider EXCEPT !.endpoint = "quotes", !.body = body]
    IN IF SymbolsRejected(body)
       THEN [limiter |-> lim, response |-> ProviderError(p, 400, "Invalid request", 0, 0)]
       ELSE LET symbols == [i \in DOMAIN body.value |-> Upper(body.value[i])]
                r == get_multiple_quotes_from(symbols, 1, lim, outs, tick)
            IN [limiter |-> r.limiter,
                response |-> [p EXCEPT !.status = 200, !.items = Len(r.quotes),
                                       !.quotes = r.quotes,
                                       !.fetched = r.fetched,
                                       !.limiter_calls = r.limiter_calls,
                                       !.provider_calls = r.provider_calls]]

\* the lists of symbols posted: "b", "A", "b", ... up to MaxQuotes entries
QuoteLists ==
    {[i \in 1..n |-> IF i % 2 = 1 THEN S_b ELSE S_A] : n \in 0..MaxQuotes}

\* the bodies of POST /quotes: no 'symbols', null, a string, a list of symbols
PostBodies ==
    {[kind |-> k, value |-> <<>>] : k \in {"missing", "null"}}
    \cup {[kind |-> "text", value |-> v] : v \in {<<>>, S_A}}
    \cup {[kind |-> "list", value |-> l] : l \in QuoteLists}

\* what the provider did for a request that reached it
Upstream(response, raises, empty) ==
    IF response.provider_calls = 0 THEN "none"
    ELSE IF raises THEN "raise" ELSE IF empty THEN "empty" ELSE "data"

\* GET /api/stocks/{symbol}/quote
GetQuote ==
    /\ \E symbol \in {S_A, S_b}, info \in InfoOutcomes, hist_raises \in BOOLEAN :
         LET r == get_quote(symbol, limiter, info, hist_raises)
         IN /\ limiter' = r.limiter
            /\ provider' = [r.response EXCEPT !.upstream =
                   Upstream(r.response, info = "raise" \/ (info = "ok" /\ hist_raises),
                            info = "empty")]
    /\ UNCHANGED <<tableVars, queryVars, ingestVars, task, beat>>

\* the from / to texts of a history request: one missing or empty, a day
\* that does not exist, from before to, from after to
HistoryDates ==
    {<<None, D_0301>>, <<D_0301, None>>, <<D_0301, <<>>>>, <<D_0230, D_0314>>,
     <<D_0301, D_0314>>, <<D_0320, D_0314>>}

\* GET /api/stocks/{symbol}/history
GetHistory ==
    /\ \E symbol \in {S_b}, dates \in HistoryDates :
         \E hist \in HistoryOutcomes(1) :
            LET r == get_history(symbol, dates[1], dates[2], limiter, hist)
            IN /\ limiter' = r.limiter
               /\ provider' = [r.response EXCEPT !.upstream =
                      Upstream(r.response, hist.raises, hist.frame = <<>>)]
    /\ UNCHANGED <<tableVars, queryVars, ingestVars, task, beat>>

\* POST /api/stocks/quotes
PostQuotes ==
    /\ \E body \in PostBodies :
         \E outs \in [1..Len(body.value) -> {"ok", "raise"}], tick \in 0..1 :
            LET r == get_multiple_quotes(body, limiter, outs, tick)
            IN limiter' = r.limiter /\ provider' = r.response
    /\ UNCHANGED <<tableVars, queryVars, ingestVars, task, beat>>

\* time.time() advances
ClockTick ==
    /\ limiter.now < MaxClock
    /\ limiter' = [limiter EXCEPT !.now = @ + 1]
    /\ UNCHANGED <<tableVars, queryVars, ingestVars, task, provider, beat>>

\* yahoo_finance_service = YahooFinanceService(): the limit is
\* settings.YAHOO_FINANCE_RATE_LIMIT
InitProvider ==
    /\ eq_masters = <<>> /\ eq_ohlcv = <<>>
    /\ today = Day0 /\ load = NoLoad
    /\ req = NoReq /\ resp = NoResp /\ par = NoPar
    /\ market_data = <<>> /\ last = NoLast /\ batch = NoBatch
    /\ task = NoTask /\ provider = NoProvider /\ beat = NoBeat
    /\ \E n \in 1..MaxCalls : limiter = [NoLimiter EXCEPT !.max_calls = n]

NextProvider ==
    \/ GetQuote
    \/ GetHistory
    \/ PostQuotes
    \/ ClockTick

SpecProvider == InitProvider /\ [][NextProvider]_vars

----------------------------------------------------------------------------
(* Threads of the server calling the one module-level YahooFinanceService *)

MaxThreads == 2
MaxArrivals == 3

Threads == 1..MaxThreads

\* a thread outside wrapper; inside, pc is the line of wrapper it executes
\* next, now and kept are its locals
NoThread == [pc |-> "idle", now |-> 0, kept |-> <<>>]

\* "now = time.time()"
ThreadNow(t) ==
    /\ limiter.threads[t].pc = "idle"
    /\ Len(limiter.admitted) < MaxArrivals
    /\ limiter' = [limiter EXCEPT !.threads[t] =
                      [pc |-> "filter", now |-> limiter.now, kept |-> <<>>]]
    /\ UNCHANGED <<tableVars, queryVars, ingestVars, task, provider, beat>>

\* the list comprehension over self.calls is evaluated
ThreadFilterRead(t) ==
    /\ limiter.threads[t].pc = "filter"
    /\ limiter' = [limiter EXCEPT
          !.threads[t].pc = "store",
          !.threads[t].kept =
              SelectSeq(limiter.calls,
                        LAMBDA call_time : limiter.threads[t].now - call_time < period)]
    /\ UNCHANGED <<tableVars, queryVars, ingestVars, task, provider, beat>>

\* "self.calls = [...]": the new list replaces the attribute
ThreadFilterWrite(t) ==
    /\ limiter.threads[t].pc = "store"
    /\ limiter' = [limiter EXCEPT !.calls = limiter.threads[t].kept,
                                  !.threads[t].pc = "check"]
    /\ UNCHANGED <<tableVars, queryVars, ingestVars, task, provider, beat>>

\* "if len(self.calls) >= self.max_calls: raise RateLimitExceededException"
ThreadCheck(t) ==
    /\ limiter.threads[t].pc = "check"
    /\ limiter' = IF LimitReached(limiter.calls, limiter.max_calls)
                  THEN [limiter EXCEPT !.threads[t] = NoThread]
                  ELSE [limiter EXCEPT !.threads[t].pc = "append"]
    /\ UNCHANGED <<tableVars, queryVars, ingestVars, task, provider, beat>>

\* "self.calls.append(now)", then func runs
ThreadAppend(t) ==
    /\ limiter.threads[t].pc = "append"
    /\ limiter' = [limiter EXCEPT
          !.calls = Append(@, limiter.threads[t].now),
          !.admitted = Append(@, limiter.threads[t].now),
          !.threads[t] = NoThread]
    /\ UNCHANGED <<tableVars, queryVars, ingestVars, task, provider, beat>>

InitRace ==
    /\ eq_masters = <<>> /\ eq_ohlcv = <<>>
    /\ today = Day0 /\ load = NoLoad
    /\ req = NoReq /\ resp = NoResp /\ par = NoPar
    /\ market_data = <<>> /\ last = NoLast /\ batch = NoBatch
    /\ task = NoTask /\ provider = NoProvider /\ beat = NoBeat
    /\ \E n \in 1..MaxCalls :
          limiter = [NoLimiter EXCEPT !.max_calls = n,
                                      !.threads = [t \in Threads |-> NoThread]]

NextRace ==
    \/ \E t \in Threads : ThreadNow(t)
    \/ \E t \in Threads : ThreadFilterRead(t)
    \/ \E t \in Threads : ThreadFilterWrite(t)
    \/ \E t \in Threads : ThreadCheck(t)
    \/ \E t \in Threads : ThreadAppend(t)
    \/ ClockTick

SpecRace == InitRace /\ [][NextRace]_vars

----------------------------------------------------------------------------
(* Ingestion followed by a query: one single-symbol ingestion call into the
   empty store, then one request to a query endpoint *)

\* no ingestion call and no request yet
FirstCall == last.op = "none" /\ Idle

FlowHistorical == FirstCall /\ IngestHistoricalData
FlowQuote == FirstCall /\ IngestCurrentQuote

NextFlow ==
    \/ FlowHistorical
    \/ FlowQuote
    \/ GetSymbols
    \/ GetMarketdataBySymbol
    \/ GetLatest

SpecFlow == InitIngest /\ [][NextFlow]_vars

----------------------------------------------------------------------------
(* The bulk loaders load_eq_ohlcv and load_nse_eq_ohlcv of finanalytics/views.py,
   and ClickHouseRepository called with MarketData objects of any content; a
   behaviour is one run of a loader, or calls of the repository *)

MaxRecords == 1     \* records the provider returns for one ticker
Absent == -3        \* a key that a provider dict does not hold

\* eq_masters before a load: the tickers "A", "B", ... in insertion order
LoadMasters ==
    {[i \in 1..n |-> Master(<<64 + i>>, <<64 + i>>)] : n \in 0..MaxRows}

\* one provider record of a day; open and volume are a number, NaN, None or
\* absent, the other fields are numbers
Record(o, v) ==
    [date |-> Day0, open |-> o, high |-> 6, low |-> 4, close |-> 5, volume |-> v]

FrameRecords == {Record(o, 7) : o \in {5, NaN}}
DictRecords == {Record(o, v) : o \in {5, PyNone, Absent}, v \in {7, Absent}}
TupleRecords == {Record(o, 7) : o \in {5, PyNone}}

\* what get_stock_historical_data(ticker, start_date, end_date) may do: raise,
\* return None, a DataFrame, a list of dicts or a list of tuples
ProviderData ==
    {[shape |-> sh, records |-> <<>>] : sh \in {"raise", "none"}}
    \cup {[shape |-> "frame", records |-> r] : r \in SeqsUpTo(FrameRecords, MaxRecords)}
    \cup {[shape |-> "dicts", records |-> r] : r \in SeqsUpTo(DictRecords, MaxRecords)}
    \cup {[shape |-> "tuples", records |-> r] : r \in SeqsUpTo(TupleRecords, MaxRecords)}

\* rec.get(key): None for a key the dict does not hold
Get(x) == IF x = Absent THEN PyNone ELSE x
\* rec.get(key, 0)
GetOrZero(x) == IF x = Absent THEN 0 ELSE x

\* load_eq_ohlcv, what one ticker adds to all_ohlcv: a DataFrame makes
\* "... or []" raise inside the try, dicts become tuples of r.get(...), any
\* other list is taken as it is
EqRows(trading_symbol, data) ==
    IF data.shape \in {"raise", "none", "frame"} THEN <<>>
    ELSE [k \in DOMAIN data.records |->
            LET r == data.records[k]
            IN [trading_symbol |-> trading_symbol, symbol_bo |-> trading_symbol,
                date |-> r.date, open |-> Get(r.open), high |-> Get(r.high),
                low |-> Get(r.low), close |-> Get(r.close), volume |-> Get(r.volume)]]

\* load_nse_eq_ohlcv: float(...) / int(...) of a record raises for None
Malformed(rec) ==
    \E x \in {rec.open, rec.high, rec.low, rec.close, rec.volume} : x = PyNone

\* load_nse_eq_ohlcv, valid_records of one ticker: the records of a DataFrame
\* or of a list of dicts, without the malformed ones
NseRows(ticker, data) ==
    IF data.shape \notin {"frame", "dicts"} THEN <<>>
    ELSE LET good == SelectSeq(data.records, LAMBDA rec : ~Malformed(rec))
         IN [k \in DOMAIN good |->
               [ticker |-> ticker, datetime |-> good[k].date,
                open |-> GetOrZero(good[k].open), high |-> GetOrZero(good[k].high),
                low |-> GetOrZero(good[k].low), close |-> GetOrZero(good[k].close),
                volume |-> GetOrZero(good[k].volume)]]

\* a row holds None in a column that is not Nullable
HoldsNone(row) ==
    \E x \in {row.open, row.high, row.low, row.close, row.volume} : x = PyNone

\* the row as the driver writes it when it replaces None by the column default
Defaulted(row) ==
    [row EXCEPT !.open = ValueOrZero(@), !.high = ValueOrZero(@),
                !.low = ValueOrZero(@), !.close = ValueOrZero(@),
                !.volume = ValueOrZero(@)]

\* client.insert("eq_ohlcv", rows, column_names=...): it raises when the store
\* fails; for None in a Float32 / UInt64 column the driver either raises or
\* writes the column default (none_as)
Insert(rows, ok, none_as) ==
    IF ~ok THEN [exc |-> TRUE, rows |-> <<>>]
    ELSE IF \E k \in DOMAIN rows : HoldsNone(rows[k])
    THEN IF none_as = "reject" THEN [exc |-> TRUE, rows |-> <<>>]
         ELSE [exc |-> FALSE, rows |-> [k \in DOMAIN rows |-> Defaulted(rows[k])]]
    ELSE [exc |-> FALSE, rows |-> rows]

\* "for trading_symbol, ticker in result": all_ohlcv from ticker i on
RECURSIVE all_ohlcv_from(_, _, _)
all_ohlcv_from(result, data, i) ==
    IF i > Len(result) THEN <<>>
    ELSE EqRows(result[i].trading_symbol, data[i]) \o all_ohlcv_from(result, data, i + 1)

\* load_eq_ohlcv(request): one insert of the rows of all tickers; any
\* exception outside the fetch answers 500
load_eq_ohlcv(result, select_ok, data, ok, none_as) ==
    LET run == [NoLoad EXCEPT !.op = "load_eq_ohlcv", !.select_ok = select_ok,
                              !.data = data, !.none_as = none_as,
                              !.insert_ok = [i \in DOMAIN result |-> ok]]
        all_ohlcv == all_ohlcv_from(result, data, 1)
        ins == Insert(all_ohlcv, ok, none_as)
    IN IF ~select_ok THEN [run EXCEPT !.status = 500]
       ELSE IF result = <<>> \/ all_ohlcv = <<>> THEN [run EXCEPT !.status = 200]
       ELSE IF ins.exc THEN [run EXCEPT !.status = 500]
       ELSE [run EXCEPT !.status = 200, !.records_count = Len(all_ohlcv),
                        !.inserted = ins.rows]

\* "for row in rows" of load_nse_eq_ohlcv from ticker i on: one insert for
\* each ticker with valid records, a failed insert puts the ticker into
\* failed_tickers
RECURSIVE nse_from(_, _, _, _, _)
nse_from(rows, data, insert_ok, none_as, i) ==
    IF i > Len(rows)
    THEN [inserted |-> <<>>, inserted_total |-> 0, failed_tickers |-> <<>>]
    ELSE LET ticker == rows[i].ticker
             valid_records == NseRows(ticker, data[i])
             ins == Insert(valid_records, insert_ok[i], none_as)
             rest == nse_from(rows, data, insert_ok, none_as, i + 1)
         IN IF valid_records = <<>> THEN rest
            ELSE IF ins.exc
            THEN [rest EXCEPT !.failed_tickers = <<ticker>> \o @]
            ELSE [rest EXCEPT !.inserted = ins.rows \o @,
                              !.inserted_total = Len(valid_records) + @]

\* load_nse_eq_ohlcv(request)
load_nse_eq_ohlcv(rows, select_ok, data, insert_ok, none_as) ==
    LET run == [NoLoad EXCEPT !.op = "load_nse_eq_ohlcv", !.select_ok = select_ok,
                              !.data = data, !.none_as = none_as,
                              !.insert_ok = insert_ok]
        r == nse_from(rows, data, insert_ok, none_as, 1)
    IN IF ~select_ok THEN [run EXCEPT !.status = 500]
       ELSE IF rows = <<>> THEN [run EXCEPT !.status = 200]
       ELSE [run EXCEPT !.status = 200, !.records_count = r.inserted_total,
                        !.failed_tickers = r.failed_tickers,
                        !.inserted = r.inserted]

\* GET load_eq_ohlcv
LoadEqOhlcv ==
    /\ load.op = "none" /\ market_data = <<>>
    /\ \E select_ok \in BOOLEAN, ok \in BOOLEAN, none_as \in {"reject", "zero"},
          data \in [DOMAIN eq_masters -> ProviderData] :
         LET run == load_eq_ohlcv(eq_masters, select_ok, data, ok, none_as)
         IN load' = run /\ eq_ohlcv' = eq_ohlcv \o run.inserted
    /\ UNCHANGED <<eq_masters, today, queryVars, ingestVars, task, serviceVars>>

\* GET load_nse_eq_ohlcv
LoadNseEqOhlcv ==
    /\ load.op = "none" /\ market_data = <<>>
    /\ \E select_ok \in BOOLEAN, none_as \in {"reject", "zero"},
          insert_ok \in [DOMAIN eq_masters -> BOOLEAN],
          data \in [DOMAIN eq_masters -> ProviderData] :
         LET run == load_nse_eq_ohlcv(eq_masters, select_ok, data, insert_ok, none_as)
         IN load' = run /\ eq_ohlcv' = eq_ohlcv \o run.inserted
    /\ UNCHANGED <<eq_masters, today, queryVars, ingestVars, task, serviceVars>>

\* the MarketData objects handed to the repository: open and volume are a
\* number, zero, never set, or (open) a missing number
Objects ==
    {[MarketData(SymA, ProviderBar(Day0, 5, 7)) EXCEPT !.open = o, !.volume = v] :
        o \in {5, 0, PyNone, NaN}, v \in {7, PyNone}}

\* ClickHouseRepository.save(market_data)
Save ==
    /\ load.op = "none"
    /\ \E md \in Objects, store_ok \in BOOLEAN :
         LET r == save(market_data, md, store_ok)
         IN Len(r.table) <= MaxStore /\ market_data' = r.table
    /\ UNCHANGED <<tableVars, queryVars, last, batch, task, serviceVars>>

\* ClickHouseRepository.save_batch(market_data_list)
SaveBatch ==
    /\ load.op = "none"
    /\ \E market_data_list \in SeqsUpTo(Objects, MaxRecords), store_ok \in BOOLEAN :
         LET r == save_batch(market_data, market_data_list, store_ok)
         IN Len(r.table) <= MaxStore /\ market_data' = r.table
    /\ UNCHANGED <<tableVars, queryVars, last, batch, task, serviceVars>>

InitLoad ==
    /\ eq_masters \in LoadMasters /\ eq_ohlcv = <<>>
    /\ today = Day0 /\ load = NoLoad
    /\ req = NoReq /\ resp = NoResp /\ par = NoPar
    /\ market_data = <<>> /\ last = NoLast /\ batch = NoBatch
    /\ task = NoTask /\ limiter = NoLimiter /\ provider = NoProvider /\ beat = NoBeat

NextLoad ==
    \/ LoadEqOhlcv
    \/ LoadNseEqOhlcv
    \/ Save
    \/ SaveBatch

SpecLoad == InitLoad /\ [][NextLoad]_vars

----------------------------------------------------------------------------
(* Properties of the query endpoints *)

D_0214 == <<50, 48, 50, 52, 45, 48, 50, 45, 49, 52>>    \* "2024-02-14"
D_0315 == <<50, 48, 50, 52, 45, 48, 51, 45, 49, 53>>    \* "2024-03-15"

\* the ceiling of a / b for a >= 0, b >= 1
CeilDiv(a, b) == CHOOSE k \in 0..a : k * b >= a /\ (k - 1) * b < a

\* C1: in every 200 response of a paginated endpoint with page >= 1 and
\* perPage >= 1, totalPages is the ceiling of totalItems / perPage, hasNext is
\* (page < totalPages) and hasPrev is (page > 1).
C1_PaginationArithmetic ==
    (resp.status = 200 /\ resp.pagination.page >= 1 /\ resp.pagination.perPage >= 1)
    => LET pg == resp.pagination
       IN /\ pg.totalPages = CeilDiv(pg.totalItems, pg.perPage)
          /\ pg.hasNext = (pg.page < pg.totalPages)
          /\ pg.hasPrev = (pg.page > 1)

C1_Witness ==
    /\ req.endpoint = "symbols" /\ resp.status = 200
    /\ resp.pagination.page = 2 /\ resp.pagination.perPage = 2
    /\ resp.pagination.totalItems = 3 /\ resp.pagination.totalPages = 2
    /\ ~resp.pagination.hasNext /\ resp.pagination.hasPrev

\* C2: a request to a paginated endpoint whose page is an integer below 1 is
\* answered 400 with an error tag, without any store connection or query.
C2_PageBelowOneRejected ==
    (req.endpoint \in {"symbols", "by_symbol", "latest"} /\ req.page \in {T_0, T_neg1})
    => /\ resp.status = 400
       /\ resp.error # ""
       /\ resp.connects = 0 /\ resp.queries = 0

C2_Witness ==
    /\ req.endpoint = "latest" /\ req.page = T_0 /\ req.symbols = S_AB
    /\ resp.status = 400 /\ resp.error = "Invalid page number"

\* the dates the request texts of the model name
DateOfText(t) ==
    CASE t = D_0301 -> ToOrdinal(2024, 3, 1)
      [] t = D_0314 -> ToOrdinal(2024, 3, 14)
      [] t = D_0320 -> ToOrdinal(2024, 3, 20)
      [] OTHER -> today
GivenDate(t) == t \in {D_0301, D_0314, D_0320}
\* the request names a from date that is later than its to date, or than
\* today when to is omitted
FromAfterTo(r) ==
    /\ GivenDate(r.from)
    /\ GivenDate(r.to) \/ r.to \in {None, <<>>}
    /\ DateOfText(r.from) > DateOfText(r.to)

\* C3 as stated: every get_marketdata_by_symbol request whose from date is
\* later than its to date is answered 400 'Invalid date range' and the store
\* is not queried.
C3_Original ==
    (req.endpoint = "by_symbol" /\ FromAfterTo(req))
    => /\ resp.status = 400 /\ resp.error = "Invalid date range"
       /\ resp.connects = 0 /\ resp.queries = 0

\* C3 amended: every get_marketdata_by_symbol request with an integer page >= 1
\* and an integer per_page (or these omitted) whose from date is later than its
\* to date is answered 400 'Invalid date range' and the store is not queried;
\* with any page and per_page the answer is 400 and the store is not queried.
C3_InvalidDateRange ==
    (req.endpoint = "by_symbol" /\ FromAfterTo(req))
    => /\ resp.status = 400
       /\ resp.connects = 0 /\ resp.queries = 0
       /\ (req.page \in {None, T_1, T_2} /\ req.per_page \in {None, T_0, T_1, T_2, T_neg1})
            => resp.error = "Invalid date range"

C3_Witness ==
    /\ req.endpoint = "by_symbol" /\ req.from = D_0320 /\ req.to = None
    /\ req.page = T_2 /\ req.per_page = T_1
    /\ resp.status = 400 /\ resp.error = "Invalid date range"

\* C4: in a 200 response of get_marketdata_by_symbol, dateRange is the
\* resolved window: to is today when omitted, from is to - 30 days when
\* omitted, and a given date is echoed unchanged.
C4_DateWindow ==
    (req.endpoint = "by_symbol" /\ resp.status = 200)
    => /\ (req.to = None) => resp.dateRange.to = IsoFormat(today)
       /\ GivenDate(req.to) => resp.dateRange.to = req.to
       /\ GivenDate(req.from) => resp.dateRange.from = req.from
       /\ (req.from = None) =>
             /\ StrpOk(resp.dateRange.from) /\ StrpOk(resp.dateRange.to)
             /\ Strptime(resp.dateRange.from) + 30 = Strptime(resp.dateRange.to)

C4_Witness ==
    /\ req.endpoint = "by_symbol" /\ resp.status = 200
    /\ req.from = None /\ req.to = None /\ today = Day0
    /\ resp.dateRange = [from |-> D_0214, to |-> D_0315]
    /\ Len(resp.data) = 2

\* C5: the data of a 200 response of get_latest_marketdata holds at most one
\* row per distinct symbol, and each row is a stored row of its symbol with
\* the maximum datetime stored for that symbol.
C5_LatestOnePerSymbol ==
    (req.endpoint = "latest" /\ resp.status = 200)
    => /\ \A i, j \in DOMAIN resp.data :
             i # j => resp.data[i].ticker # resp.data[j].ticker
       /\ \A i \in DOMAIN resp.data :
             \E k \in DOMAIN eq_ohlcv :
                /\ resp.data[i] = BarJson(eq_ohlcv[k])
                /\ \A m \in DOMAIN eq_ohlcv :
                      eq_ohlcv[m].ticker = eq_ohlcv[k].ticker
                         => eq_ohlcv[m].datetime <= eq_ohlcv[k].datetime

\* C6: in parallel mode the returned data is sorted by symbol ascending and
\* is the same list whatever the order in which the workers completed: the
\* workers' results taken in submission order, sorted by symbol.
RECURSIVE Flatten(_)
Flatten(ss) == IF ss = <<>> THEN <<>> ELSE Head(ss) \o Flatten(Tail(ss))
C6_ParallelSorted ==
    (req.endpoint = "latest" /\ TakesParallel(req) /\ resp.status = 200)
    => /\ \A i \in 1..(Len(resp.data) - 1) :
             TickerKey(resp.data[i].ticker) <= TickerKey(resp.data[i + 1].ticker)
       /\ resp.data = SortByTicker(Flatten(par.result))

C6_Witness ==
    /\ req.endpoint = "latest" /\ TakesParallel(req) /\ resp.status = 200
    /\ Len(resp.data) = 2
    /\ resp.data[1].ticker = SymA /\ resp.data[2].ticker = SymB
    /\ par.market_data # resp.data

----------------------------------------------------------------------------
(* Properties of the ingestion service *)

RECURSIVE SumSeq(_)
SumSeq(q) == IF q = <<>> THEN 0 ELSE Head(q) + SumSeq(Tail(q))

RowsOf(table, symbol) == Cardinality({i \in DOMAIN table : table[i].symbol = symbol})

\* C7: a batch attempts every symbol of its list exactly once, in list order,
\* whatever fails on the way, and returns the number of quotes saved (quotes)
\* or the sum of the records saved (historical) by the symbols that
\* succeeded, which is the number of rows the batch added to the store.
C7_BatchContinuesPastFailures ==
    (batch.op # "none")
    => /\ batch.attempts = SubSeq(batch.symbols, 1, Len(batch.attempts))
       /\ Len(batch.rets) = Len(batch.attempts)
       /\ ~batch.done => Len(batch.attempts) = batch.i - 1
       /\ batch.done =>
            /\ batch.attempts = batch.symbols
            /\ batch.op = "quotes" =>
                 batch.ret = Cardinality({i \in DOMAIN batch.rets : batch.rets[i] # 0})
            /\ batch.op = "historical" => batch.ret = SumSeq(batch.rets)
            /\ batch.ret = Len(market_data) - Len(batch.before)

C7_Witness ==
    /\ batch.op = "quotes" /\ batch.done
    /\ Len(batch.symbols) = 3
    /\ batch.rets = <<1, 0, 1>>
    /\ batch.ret = 2

\* C8: the store holds at most one row per (symbol, trading date).
C8_OneRowPerSymbolDate ==
    \A i, j \in DOMAIN market_data :
       (i # j) => \/ market_data[i].symbol # market_data[j].symbol
                  \/ market_data[i].date # market_data[j].date

C10_SingleSymbolNeverRaises ==
    (last.op \in {"quote", "historical"})
    => /\ ~last.raised
       /\ ( \/ last.raises \/ last.frame = <<>> \/ ~last.store_ok
            \/ (last.op = "quote" /\ last.info # "ok") )
          => (last.ret = 0 /\ market_data = last.before)
       /\ (last.op = "quote" /\ last.ret # 0)
          => /\ Len(market_data) = Len(last.before) + 1
             /\ SubSeq(market_data, 1, Len(last.before)) = last.before
             /\ market_data[Len(market_data)].symbol = last.symbol

C10_Witness ==
    /\ last.op = "quote" /\ last.info = "ok" /\ ~last.raises
    /\ last.frame # <<>> /\ ~last.store_ok
    /\ last.calls = 1 /\ last.ret = 0 /\ ~last.raised
    /\ market_data = last.before /\ Len(market_data) = 1

----------------------------------------------------------------------------
(* Properties of the scheduled tasks *)

\* C11: an instance of ingest_daily_historical or ingest_intraday_quotes is
\* retried at most max_retries times, each time with the fixed delay, and once
\* the retries are exhausted it does not propagate the exception: it ends
\* with result status 'failed' after an 'after max retries' message on the
\* ALERT logger.
C11_TaskStateMachine ==
    /\ task.retries <= max_retries
    /\ \A i \in DOMAIN task.countdowns : task.countdowns[i] = default_retry_delay
    /\ task.state # "raised"
    /\ task.state = "failed" =>
          /\ task.runs = max_retries + 1
          /\ task.alerts # <<>>
          /\ task.alerts[Len(task.alerts)] = "after max retries"
          /\ task.result.status = "failed"

\* C12: a run of ingest_daily_historical during which the store rejected a
\* batch write does not end the instance in status 'success' on its first run.
C12_StoreRejectionRetried ==
    (task.name = "daily" /\ task.state = "success" /\ batch.rejected)
        => task.retries > 0

\* the symbols of the last batch that were ingested
Ingested == {i \in DOMAIN batch.rets : batch.rets[i] # 0}

\* C13: a run of ingest_intraday_quotes that does not raise puts a message on
\* the ALERT logger exactly when fewer than half of the configured symbols
\* were ingested, returns status 'success' with the number ingested, and the
\* instance does not run again.
C13_HighFailureRateAlert ==
    /\ [](task.name = "intraday" /\ task.state = "success" =>
            /\ task.result = [status |-> "success", count |-> Cardinality(Ingested)]
            /\ ("high failure rate" \in Elems(task.alerts))
                  <=> (100 * Cardinality(Ingested) < 50 * Len(task.symbols))
            /\ \A i \in DOMAIN task.alerts : task.alerts[i] = "high failure rate")
    /\ [][task.name = "intraday" /\ task.state = "success" =>
            (task' = task /\ batch' = batch /\ market_data' = market_data)]_vars

\* exactly half of a universe of two symbols was ingested: no alert
C13_Witness ==
    /\ task.name = "intraday" /\ task.state = "success"
    /\ Len(task.symbols) = 2 /\ task.result.count = 1
    /\ task.alerts = <<>>

----------------------------------------------------------------------------
(* Properties of the rate limiter and the provider-backed endpoints *)

\* the admitted calls of history h within the second that ends at time t
InLastSecond(h, t) == {i \in DOMAIN h : t - h[i] < period /\ h[i] <= t}

\* C14: with sequential callers, at most max_calls admitted calls have
\* admission times in any rolling window of one second; the call that
\* arrives while max_calls admitted calls lie in the last second raises
\* RateLimitExceededException at once, the wrapped function is not invoked
\* and the call is not recorded; any other call is admitted.
C14_RollingWindow ==
    /\ \A t \in 0..MaxClock :
          Cardinality(InLastSecond(limiter.admitted, t)) <= limiter.max_calls
    /\ limiter.outcome # "none" =>
          LET full == Cardinality(InLastSecond(limiter.before, limiter.at))
                         >= limiter.max_calls
          IN /\ limiter.outcome = (IF full THEN "rejected" ELSE "admitted")
             /\ limiter.outcome = "rejected" =>
                   /\ ~limiter.invoked
                   /\ limiter.admitted = limiter.before
             /\ limiter.outcome = "admitted" =>
                   /\ limiter.invoked
                   /\ limiter.admitted = Append(limiter.before, limiter.at)

\* a call is refused, and a call is admitted after calls left the window
C14_Witness ==
    /\ limiter.outcome = "admitted"
    /\ Len(limiter.before) >= limiter.max_calls
    /\ Len(limiter.admitted) > limiter.max_calls

\* the limiter refused the call made for the last request
Refused == provider.limiter_calls >= 1 /\ limiter.outcome = "rejected"

\* C15: when the rate limiter refuses the provider call of a quote or history
\* request, the answer is 429 'Rate limit exceeded', the provider is not
\* called and the call is made once only; when the provider call fails or
\* returns no data, the answer is 500 with an error tag and a message.
C15_RateLimitAndProviderFailure ==
    provider.endpoint \in {"quote", "history"} =>
        /\ Refused =>
              /\ provider.status = 429 /\ provider.error = "Rate limit exceeded"
              /\ provider.provider_calls = 0 /\ provider.limiter_calls = 1
        /\ provider.upstream \in {"raise", "empty"} =>
              /\ provider.status = 500 /\ provider.error = "Internal server error"
              /\ provider.message

\* a refused history request and its 429
C15_Witness ==
    /\ provider.endpoint = "history" /\ Refused
    /\ provider.status = 429

\* C17: on the provider-backed endpoints an invalid input is answered 400 and
\* the provider is not called: a history request with from or to missing,
\* with a date not in YYYY-MM-DD form or with from later than to, and a
\* quotes request whose symbols are missing, empty or not a list.
C17_InvalidInputRejected ==
    /\ (/\ provider.endpoint = "history"
        /\ \/ provider.from \in {None, <<>>} \/ provider.to \in {None, <<>>}
           \/ ~GivenDate(provider.from) \/ ~GivenDate(provider.to)
           \/ DateOfText(provider.from) > DateOfText(provider.to))
         => (provider.status = 400 /\ provider.provider_calls = 0)
    /\ (/\ provider.endpoint = "quotes"
        /\ \/ provider.body.kind # "list"
           \/ provider.body.value = <<>>)
         => (provider.status = 400 /\ provider.provider_calls = 0)

----------------------------------------------------------------------------
(* Properties of the query endpoints: failures and shapes *)

\* C16: a request of get_symbols, get_marketdata_by_symbol or
\* get_latest_marketdata during which the store connection or a store read
\* failed is answered with status 500 and error 'Internal server error',
\* never with 200.
C16_StoreFailureIs500 ==
    (resp.store_failed /\ resp.status # 0)
        => (resp.status = 500 /\ resp.error = "Internal server error")

\* the tickers of the entries of a response, in order
ListedTickers == [i \in DOMAIN resp.data |-> resp.data[i].ticker]
\* the bar times of a ticker
TimesOf(t) == {eq_ohlcv[i].datetime : i \in {j \in DOMAIN eq_ohlcv : eq_ohlcv[j].ticker = t}}

\* C18: get_symbols lists each distinct symbol at most once, in ascending
\* order, with recordCount the number of stored bars of the symbol and
\* firstDate / lastDate its earliest / latest bar time (null without bars),
\* and totalItems is the number of distinct symbols listed over all pages.
C18_SymbolsDistinct ==
    (req.endpoint = "symbols" /\ resp.status = 200) =>
        /\ \A i, j \in DOMAIN resp.data : i < j =>
              /\ ListedTickers[i] # ListedTickers[j]
              /\ TickerKey(ListedTickers[i]) <= TickerKey(ListedTickers[j])
        /\ \A i \in DOMAIN resp.data :
              LET e == resp.data[i]
                  bars == {j \in DOMAIN eq_ohlcv : eq_ohlcv[j].ticker = e.ticker}
              IN /\ e.recordCount = Cardinality(bars)
                 /\ e.firstDate = IF bars = {} THEN None ELSE IsoDateTime(Min(TimesOf(e.ticker)))
                 /\ e.lastDate = IF bars = {} THEN None ELSE IsoDateTime(Max(TimesOf(e.ticker)))
        /\ (resp.pagination.page = 1 /\ ~resp.pagination.hasNext) =>
              resp.pagination.totalItems = Cardinality(Elems(ListedTickers))

\* the field names of the bar objects and of the symbol entries
BarFields ==
    {"symbol", "timestamp", "date", "open", "high", "low", "close", "volume",
     "adjustedClose"}
SymbolFields == {"symbol", "recordCount", "firstDate", "lastDate"}

\* C19: every bar object of get_marketdata_by_symbol and get_latest_marketdata
\* has the fields symbol, timestamp, date, open, high, low, close, volume and
\* adjustedClose, every get_symbols entry has symbol, recordCount, firstDate
\* and lastDate, and the get_marketdata_by_symbol response has a top-level
\* symbol equal to the uppercased request symbol.
C19_ResponseFields ==
    resp.status = 200 =>
        /\ req.endpoint \in {"by_symbol", "latest"} =>
              \A i \in DOMAIN resp.data : BarFields \subseteq DOMAIN resp.data[i]
        /\ req.endpoint = "symbols" =>
              \A i \in DOMAIN resp.data : SymbolFields \subseteq DOMAIN resp.data[i]
        /\ req.endpoint = "by_symbol" =>
              /\ "symbol" \in DOMAIN resp
              /\ resp.symbol = Upper(req.symbol)

----------------------------------------------------------------------------
(* Properties of the beat schedule *)

Weekday == DayOfWeek(beat.minute) \in 1..5
MarketHours == MinuteOfDay(beat.minute) \in (9 * 60 + 30)..(16 * 60)

\* C20: the intraday quote job fires every 15 minutes at the times inside
\* market hours (9:30 to 16:00) of Monday to Friday and never outside them,
\* and the daily historical job fires exactly once per calendar day, at 18:00.
C20_BeatSchedule ==
    /\ "intraday" \in beat.due => (Weekday /\ MarketHours)
    /\ (Weekday /\ MarketHours /\ MinuteOfDay(beat.minute) % 15 = 0)
          => "intraday" \in beat.due
    /\ "daily" \in beat.due <=> MinuteOfDay(beat.minute) = 18 * 60
    /\ beat.daily_today = (IF MinuteOfDay(beat.minute) >= 18 * 60 THEN 1 ELSE 0)

----------------------------------------------------------------------------
(* Properties of the ad-hoc tasks *)

\* what happened in the single-symbol call an ad-hoc task made
FetchRaised ==
    IF last.op = "quote" THEN last.info = "raise" \/ (last.info = "ok" /\ last.raises)
    ELSE last.raises
NoData ==
    IF last.op = "quote"
    THEN last.info = "empty" \/ (last.info = "ok" /\ ~last.raises /\ last.frame = <<>>)
    ELSE ~last.raises /\ last.frame = <<>>
StoreRaised == last.calls = 1 /\ ~last.store_ok
Persisted == last.calls = 1 /\ last.store_ok /\ Len(market_data) > Len(last.before)

\* C21: an ad-hoc single-symbol task returns a result whose status is one of
\* success / no_data / failed: 'success' only when the data was fetched and
\* persisted without error, 'no_data' only when the provider returned no
\* data, and 'failed' when the provider fetch or the store write raised.
C21_AdHocResult ==
    (task.name \in {"symbol_historical", "symbol_current"} /\ task.state = "returned"
        /\ last.op # "none") =>
        /\ task.result.status \in {"success", "no_data", "failed"}
        /\ task.result.status = "success" => (~FetchRaised /\ Persisted)
        /\ task.result.status = "no_data" => NoData
        /\ (FetchRaised \/ StoreRaised) => task.result.status = "failed"

----------------------------------------------------------------------------
(* Properties of POST /quotes *)

\* the positions of the posted symbols whose fetch returned a quote
FetchedAt == {i \in DOMAIN provider.fetched : provider.fetched[i] = "none"}

\* the uppercased symbols at those positions, in the order of the request
FetchedSymbols ==
    [k \in 1..Cardinality(FetchedAt) |->
        Upper(provider.body.value[
            CHOOSE i \in FetchedAt : Cardinality({j \in FetchedAt : j < i}) = k - 1])]

----------------------------------------------------------------------------
(* Properties of the two ways get_latest_marketdata reads a symbols list *)

\* what the same request is answered on the same store with parallel=false
SequentialAnswer == get_latest_marketdata([req EXCEPT !.parallel = T_false], "ok")

\* the thread-pool branch has answered and no worker's query raised
ParallelAnswered ==
    /\ req.endpoint = "latest" /\ TakesParallel(req)
    /\ par.symbols_list # <<>> /\ ~par.active
    /\ ~resp.store_failed

\* C23: for every content of the store and every get_latest_marketdata
\* request with a symbols list of at least two entries, whatever page and
\* per_page, the data rows and the pagination answered with parallel=true
\* equal those answered with parallel=false.
C23_ParallelEqualsSequential ==
    ParallelAnswered =>
        /\ resp.status = SequentialAnswer.status
        /\ resp.data = SequentialAnswer.data
        /\ resp.pagination = SequentialAnswer.pagination

----------------------------------------------------------------------------
(* Properties of the rate limiter under concurrent callers *)

\* how often x occurs in the sequence h
Occurrences(h, x) == Cardinality({i \in DOMAIN h : h[i] = x})

\* C24: with concurrent threads calling the one module-level service, for
\* every interleaving of the wrapper's filter, check and append steps, the
\* calls admitted in any window of one second never exceed max_calls, and the
\* timestamp of every admitted call stays recorded until it expires.
C24_ConcurrentWindow ==
    /\ \A t \in 0..MaxClock :
          Cardinality(InLastSecond(limiter.admitted, t)) <= limiter.max_calls
    /\ \A i \in DOMAIN limiter.admitted :
          limiter.now - limiter.admitted[i] < period =>
              Occurrences(limiter.calls, limiter.admitted[i])
                  >= Occurrences(limiter.admitted, limiter.admitted[i])

----------------------------------------------------------------------------
(* Properties of the pages of one query *)

\* what the endpoint of the request answers to r on the same healthy store
AnswerTo(r) ==
    IF req.endpoint = "symbols" THEN get_symbols(r, "ok")
    ELSE IF req.endpoint = "by_symbol" THEN get_marketdata_by_symbol(r, "ok")
    ELSE get_latest_marketdata(r, "ok")

\* the rows of page p of the request
PageRows(p) == AnswerTo([req EXCEPT !.page = <<48 + p>>]).data

\* the rows of pages 1..n, in order
RECURSIVE PagesUpTo(_)
PagesUpTo(n) == IF n <= 0 THEN <<>> ELSE PagesUpTo(n - 1) \o PageRows(n)

\* the rows of the request when one page holds them all
Unpaged == AnswerTo([req EXCEPT !.page = T_1, !.per_page = None]).data

\* a paginated endpoint has answered one page without the thread pool
PageAnswered ==
    /\ req.endpoint \in {"symbols", "by_symbol", "latest"}
    /\ ~TakesParallel(req)
    /\ resp.status = 200 /\ ~resp.store_failed
    /\ resp.pagination.perPage >= 1

\* C25: on every paginated endpoint each page holds at most perPage rows, and
\* the pages 1..totalPages of a query together hold every matching row
\* exactly once, their total being totalItems; this includes
\* get_latest_marketdata with a symbols list of which some have no rows.
C25_PagesPartition ==
    PageAnswered =>
        /\ \A p \in 1..resp.pagination.totalPages :
              Len(PageRows(p)) <= resp.pagination.perPage
        /\ PagesUpTo(resp.pagination.totalPages) = Unpaged
        /\ Len(Unpaged) = resp.pagination.totalItems

----------------------------------------------------------------------------
(* Properties of the LIMIT and OFFSET of the paged queries *)

\* the largest per_page of the endpoint of the request
MaxPerPage ==
    IF req.endpoint = "symbols" THEN SymbolsMaxPerPage
    ELSE IF req.endpoint = "by_symbol" THEN BarsMaxPerPage
    ELSE LatestMaxPerPage

\* the LIMIT and the OFFSET the endpoint puts into its paged query
LimitSent ==
    MinOf(IntParam(req.per_page,
                   IF req.endpoint = "symbols" THEN SymbolsDefaultPerPage
                   ELSE IF req.endpoint = "by_symbol" THEN BarsDefaultPerPage
                   ELSE LatestDefaultPerPage),
          MaxPerPage)
OffsetSent == (IntParam(req.page, 1) - 1) * LimitSent

\* an answered request with integer page >= 1 and integer per_page, during
\* which the store did not fail
IntegerPaging ==
    /\ req.endpoint \in {"symbols", "by_symbol", "latest"}
    /\ IntParamOk(req.page) /\ IntParamOk(req.per_page)
    /\ IntParam(req.page, 1) >= 1
    /\ resp.status # 0 /\ ~resp.store_failed

\* C26: for every integer per_page, 0 and negative values included, and
\* page >= 1, with a healthy store, the three query endpoints answer 200 or
\* 400, never 500, and the LIMIT and OFFSET they send are never negative, the
\* LIMIT never above the endpoint's maximum.
C26_PerPageBounds ==
    IntegerPaging =>
        /\ resp.status \in {200, 400}
        /\ (resp.queries >= 1 /\ ~TakesParallel(req)) =>
              /\ LimitSent >= 0 /\ OffsetSent >= 0
              /\ LimitSent <= MaxPerPage

----------------------------------------------------------------------------
(* Properties of ingestion followed by a query *)

\* the rows the ingestion call wrote for the symbol asked for, dated inside
\* the date range the by_symbol request was answered for
WrittenInRange ==
    {i \in DOMAIN market_data :
        /\ market_data[i].symbol = Upper(req.symbol)
        /\ market_data[i].date >= Strptime(resp.dateRange.from)
        /\ market_data[i].date <= Strptime(resp.dateRange.to)}

\* C27: a bar written by ingestion (ingest_current_quote or
\* ingest_historical_data through ClickHouseRepository) for symbol s and date
\* d is visible to a later request: get_marketdata_by_symbol(s) over a range
\* containing d counts it, get_latest_marketdata has a row for s, and
\* get_symbols lists s.
C27_IngestedVisible ==
    (resp.status = 200 /\ ~resp.store_failed) =>
        /\ req.endpoint = "by_symbol" =>
              resp.pagination.totalItems >= Cardinality(WrittenInRange)
        /\ (req.endpoint = "latest" /\ Falsy(req.symbols)) =>
              resp.pagination.totalItems
                  >= Cardinality({market_data[i].symbol : i \in DOMAIN market_data})
        /\ req.endpoint = "symbols" =>
              resp.pagination.totalItems
                  >= Cardinality({market_data[i].symbol : i \in DOMAIN market_data})

----------------------------------------------------------------------------
(* Properties of POST /quotes against the service's own rate limit *)

\* the provider failed for none of the posted symbols
ProviderNeverFailed == \A i \in DOMAIN provider.fetched : provider.fetched[i] # "yahoo"

\* C28: when the provider has data for each of the k posted symbols and never
\* fails, POST /quotes returns exactly k quotes, for every k >= 1 and also
\* for k above the configured rate limit, however fast each fetch completes:
\* the pause between fetches keeps the service's own limiter from dropping a
\* symbol.
C28_AllQuotesReturned ==
    (provider.endpoint = "quotes" /\ provider.status = 200 /\ ProviderNeverFailed)
        => Len(provider.quotes) = Len(provider.body.value)

----------------------------------------------------------------------------
(* Properties of the rows written by the repository and the bulk loaders *)

\* open, high, low, close and volume of a stored row are numbers: not null,
\* and not the mark of a number that the provider record lacked
HasNumbers(row) ==
    \A x \in {row.open, row.high, row.low, row.close, row.volume} :
        x \notin {PyNone, NaN, Absent}

\* C29: every row written to the store by ClickHouseRepository.save and
\* save_batch and by the bulk loaders load_eq_ohlcv and load_nse_eq_ohlcv,
\* whatever the shape of the provider record (object, dict or tabular row),
\* has non-null open, high, low, close and volume: a numeric field missing
\* from the provider record is stored as 0.
C29_MissingStoredAsZero ==
    /\ \A i \in DOMAIN market_data : HasNumbers(market_data[i])
    /\ \A i \in DOMAIN eq_ohlcv : HasNumbers(eq_ohlcv[i])

\* the rows the loader that ran builds for ticker i of eq_masters alone
OwnRows(i) ==
    IF load.op = "load_eq_ohlcv"
    THEN EqRows(eq_masters[i].trading_symbol, load.data[i])
    ELSE NseRows(eq_masters[i].ticker, load.data[i])

\* the provider returned rows for ticker i, and the store takes them
Loadable(i) ==
    /\ OwnRows(i) # <<>>
    /\ ~Insert(OwnRows(i), load.insert_ok[i], load.none_as).exc

\* C30: in load_eq_ohlcv and load_nse_eq_ohlcv a provider failure or a store
\* insert failure concerning one ticker never keeps the rows of the other
\* tickers from being fetched and stored; records_count is the number of
\* rows inserted, and in load_nse_eq_ohlcv every ticker whose insert failed
\* is listed in failed_tickers.
C30_TickersIndependent ==
    (load.op # "none" /\ load.select_ok) =>
        /\ \A i \in DOMAIN eq_masters :
              Loadable(i) =>
                 LET written == Insert(OwnRows(i), TRUE, load.none_as).rows
                 IN \A k \in DOMAIN written :
                       \E j \in DOMAIN load.inserted : load.inserted[j] = written[k]
        /\ load.status = 200 => load.records_count = Len(load.inserted)
        /\ load.op = "load_nse_eq_ohlcv" =>
              \A i \in DOMAIN eq_masters :
                 (OwnRows(i) # <<>> /\ ~Loadable(i)) =>
                    \E j \in DOMAIN load.failed_tickers :
                       load.failed_tickers[j] = eq_masters[i].ticker

====
